---- MODULE Spec2Model ----
(***************************************************************************)
(* Stream orchestration and reliable uplink of the RNE watcher.            *)
(*                                                                         *)
(* The repository ships two deployments of the same subsystem:             *)
(*   "desktop"  : src/src/main (WatcherEngine, StreamManager,              *)
(*                UplinkManager, EmbeddedBrowser)                          *)
(*   "headless" : src/rne-headless/src (WatcherEngine, StreamWatcher,      *)
(*                UplinkManager)                                           *)
(* The variable `variant` selects the deployment; every action follows the *)
(* code of the selected deployment.  Node runs handlers to completion, so  *)
(* one action is one synchronous run of a handler up to its next await.    *)
(***************************************************************************)
EXTENDS Integers, Sequences, FiniteSets, TLC

\* ---------------------------------------------------------------- bounds
\* number of stream sessions that can be created during one run
MaxStreams == 4
\* frames captured during one run before the model stops the capture ticks
MaxFrames == 3
\* largest value of the millisecond clock Date.now()
MaxTime == 3
\* capture ticks of one headless session that may overlap (setInterval)
MaxInflight == 2
\* largest source priority drawn for a configuration
MaxPriority == 2
\* getNextSource calls made beyond one full pass over the queue
MaxExtraCalls == 2
\* rotation timer ticks that fire during one run
MaxRotations == 3
\* largest config.streams.maxConcurrent drawn for the orchestrator runs
MaxPool == 2
\* playback positions a tick can report: 0..MaxPosition
MaxPosition == 1
\* identical readings counted by the stall detector
MaxStallCount == 4
\* stop() calls a caller makes on one session
MaxStopCalls == 3
\* video ids, contents and categories drawn for the knowledge store
MaxVideos == 2
MaxContents == 2
MaxCategories == 2
\* update calls made on the knowledge store during one run
MaxStoreCalls == 3
\* save() calls made on the knowledge store during one run
MaxSaves == 2
\* largest number of hours passed to updateWatchTime
MaxHours == 1
\* runs of reportStatus() during one run
MaxStatus == 2

\* ------------------------------------------------- configuration values
\* config.brain.batchMaxSize / batch_max_size (scaled down from 50)
BatchMaxSize == 2
\* config.brain.maxReconnectAttempts / max_reconnect_attempts (scaled from 10)
MaxReconnectAttempts == 2
\* config.streams.max_concurrent (desktop default)
MaxConcurrent == 1
\* number of configured sources in the rotation queue
QueueLength == 3
\* detectStall(): identical readings that make a stall
StallThreshold == 3
\* addInsight(): frame times closer than this are the same moment
DedupWindow == 10

Variants == {"desktop", "headless"}
Streams == 1..MaxStreams

Min(a, b) == IF a <= b THEN a ELSE b

\* config.streams.rotation.mode
Modes == {"priority", "sequential", "random"}
\* calls of rotateStreams() made by the rotation interval
Rotations == 1..MaxRotations

VARIABLES
    variant,            \* deployment whose code runs
    alive,              \* the process has not terminated
    now,                \* Date.now()
    \* ---- UplinkManager fields
    socket,             \* this.socket !== null
    connected,          \* this.connected
    authenticated,      \* this.authenticated
    agentId,            \* this.agentId ("" when unset)
    reconnectAttempts,  \* this.reconnectAttempts (desktop only)
    observationQueue,   \* this.observationQueue
    batchTimeout,       \* this.batchTimeout !== null and not yet fired
    batchArmedAt,       \* Date.now() when the batching timer was armed
    connectPromise,     \* promise returned by connect()
    authTimer,          \* the 10 s setTimeout of connect() is pending
    authArmedAt,        \* Date.now() when connect() armed its timeout
    \* ---- transport (socket.io) as seen through its events
    authPending,        \* watcher:auth was emitted and is unanswered
    ioAttempts,         \* consecutive failed connection attempts
    \* ---- engine
    enginePc,           \* position of start()/stop()
    engineRunning,      \* headless WatcherEngine.running
    engineState,        \* desktop WatcherEngine.state
    stopPc,             \* position of stop()
    startI,             \* loop index i of the initial start loop
    starting,           \* stream id whose start is awaited by startStream (0: none)
    streams,            \* keys of the streams Map, in insertion order
    currentSourceIndex, \* cursor into the source queue
    isPaused,           \* desktop StreamManager.isPaused
    nextStreamId,       \* next fresh stream id (uuid)
    \* ---- sessions, indexed by stream id
    sState,             \* status.state / stats.state
    sRunning,           \* headless StreamWatcher.running
    sFrames,            \* framesCaptured / frames_captured
    sTimer,             \* capture timer armed (setInterval / setTimeout)
    sArmedAt,           \* Date.now() when the capture timer was armed or last fired
    sInflight,          \* capture ticks suspended at an await
    sPhase,             \* desktop: which await the tick is suspended at
    sBrowser,           \* browser / page still open
    sSource,            \* queue position of the bound source
    \* ---- history (observation only, never read by the code)
    accepted,           \* observations passed to sendObservation, in order
    transmitted,        \* batches handed to socket.emit without a throw
    lastFlush,          \* outcome of the flush run by the last step
    rejected,           \* batch whose emit threw and was not yet re-sent
    authAcked,          \* an auth_success or auth_error arrived for connect()
    startFailed,        \* start() threw to its caller
    opened,             \* the transport has opened since connect() was called
    requested,          \* queue positions returned by getNextSource, in call order
    \* ---- configuration and source queue
    maxConcurrent,      \* config.streams.maxConcurrent / max_concurrent
    sources,            \* config.streams.sources (id: position in the configuration)
    rotationMode,       \* config.streams.rotation.mode (read by the desktop build)
    sourceQueue,        \* this.sourceQueue
    \* ---- headless rotation
    rotationTimer,      \* this.rotationTimer !== null
    rotArmedAt,         \* Date.now() when the rotation interval was armed or last fired
    rotCount,           \* rotation ticks that have fired
    rotPc,              \* per rotateStreams() call: the await it is suspended at
    rotOldest,          \* per call: oldestId
    rotNew,             \* per call: id of the watcher it constructed (0: none)
    totalFramesCaptured,\* this.totalFramesCaptured
    sStartedAt,         \* per session: stats.startedAt
    \* ---- desktop EmbeddedBrowser stall detector
    lastPlaybackTime,   \* per session: this.lastPlaybackTime
    stallCheckCount,    \* per session: this.stallCheckCount
    readings,           \* per session: the positions reported by its latest ticks (history)
    \* ---- calls made on a session (history)
    sStopCalls,         \* per session: calls of its stop()
    sCloseCalls,        \* per session: calls of close() on its open browser
    \* ---- KnowledgeStore
    kPc,                \* "new", "ready" (initialize() ran) or "shutdown"
    kInsights,          \* knowledgeBase.insights
    kTotalInsights,     \* knowledgeBase.metadata.totalInsights
    kTotalIncidents,    \* knowledgeBase.metadata.totalIncidents
    kTotalPatterns,     \* knowledgeBase.metadata.totalStrategyPatterns
    kStats,             \* knowledgeBase.categoryStats
    kDirty,             \* this.dirty
    kSaveInterval,      \* this.saveInterval is armed
    kWrites,            \* the writeFile calls in flight: the text each one writes
    kFile,              \* knowledge.json: <<>> (no file) or <<its text>>
    kCalls,             \* update calls made so far (history)
    kSaves,             \* save() calls made so far (history)
    kLastInsight,       \* argument of the latest addInsight call (history)
    \* ---- uplink, continued
    currentSource,      \* headless: this.currentSource as a queue position,
                        \* -1 for null (desktop: currentStreamInfo, never set)
    \* ---- status reports (history)
    statusCount,        \* runs of reportStatus() so far
    statusReported,     \* totalFramesCaptured of the latest status message
                        \* (-1: none sent)
    statusActual,       \* frames captured by all sessions when it was sent
    \* ---- desktop WatcherEngine, continued
    restartPc,          \* a start() called while an earlier start() is in
                        \* progress or the engine is paused: "none",
                        \* "connecting", "starting", "done", "failed"
    \* ---- more history
    authRejected        \* an auth-error arrived on the unauthenticated channel
                        \* and no auth-success since

uplinkVars == <<socket, connected, authenticated, agentId, reconnectAttempts,
                observationQueue, batchTimeout, batchArmedAt, connectPromise,
                authTimer, authArmedAt, authPending, ioAttempts>>
engineVars == <<enginePc, stopPc, engineRunning, engineState, startI, starting, streams,
                currentSourceIndex, isPaused, nextStreamId>>
sessionVars == <<sState, sRunning, sFrames, sTimer, sArmedAt, sInflight, sPhase,
                 sBrowser, sSource>>
histVars == <<accepted, transmitted, lastFlush, rejected, authAcked, startFailed>>
cfgVars == <<maxConcurrent, sources, rotationMode, sourceQueue>>
rotVars == <<rotationTimer, rotArmedAt, rotCount, rotPc, rotOldest, rotNew,
             totalFramesCaptured>>
orchVars == <<cfgVars, rotVars, sStartedAt, opened, requested>>
stallVars == <<lastPlaybackTime, stallCheckCount, readings>>
callVars == <<sStopCalls, sCloseCalls>>
storeVars == <<kPc, kInsights, kTotalInsights, kTotalIncidents, kTotalPatterns,
               kStats, kDirty, kSaveInterval, kWrites, kFile, kCalls, kSaves,
               kLastInsight>>
ghostVars == <<authRejected>>
infoVars == <<currentSource>>
statusVars == <<statusCount, statusReported, statusActual>>
restartVars == <<restartPc>>
vars == <<variant, alive, now, uplinkVars, engineVars, sessionVars, histVars,
          orchVars, stallVars, callVars, storeVars, ghostVars, infoVars, statusVars,
          restartVars>>

\* ------------------------------------------------------------ promises
\* resolve()/reject() of an already settled promise are no-ops
Resolve(p) == IF p = "pending" THEN "resolved" ELSE p
Reject(p) == IF p = "pending" THEN "rejected" ELSE p

\* ============================================================ UplinkManager

\* observationQueue.splice(0, batchMaxSize): the removed head
SpliceHead(q) == SubSeq(q, 1, Min(Len(q), BatchMaxSize))
\* observationQueue.splice(0, batchMaxSize): what stays in the queue
SpliceRest(q) == SubSeq(q, Min(Len(q), BatchMaxSize) + 1, Len(q))

\* mutant of AfterThrow: the catch block appends the batch (push) instead of
\* putting it back at the front (unshift)
AfterThrow_push(batch, rest) ==
    IF variant = "desktop" THEN rest \o batch ELSE rest

\* the queue after a batch whose emit threw: the desktop catch block puts the
\* batch back with unshift(...batch); the headless build has no catch block
AfterThrow(batch, rest) ==
    IF variant = "desktop" THEN batch \o rest ELSE rest

\* streamInfo of a batch: the stream of its first observation ('unknown',
\* here 0, without one) and the source set last by setCurrentSource (none,
\* here -1, in the desktop build, whose setStreamInfo has no caller)
StreamInfo(batch) ==
    [streamId |-> IF batch = <<>> THEN 0 ELSE batch[1].streamId,
     source |-> currentSource]

\* the ObservationBatch message built by flushObservations
Message(batch) ==
    [agentId |-> agentId, batchId |-> now, observations |-> batch,
     streamInfo |-> StreamInfo(batch)]

\* mutant of FlushObservations: the connectivity check is missing
FlushObservations_noCheck(q, thr) ==
    /\ batchTimeout' = FALSE
    /\ batchArmedAt' = 0
    /\ IF q = <<>>
         THEN /\ observationQueue' = q
              /\ lastFlush' = "empty"
              /\ UNCHANGED <<transmitted, rejected>>
         ELSE IF ~thr
         THEN /\ observationQueue' = SpliceRest(q)
              /\ transmitted' = Append(transmitted, Message(SpliceHead(q)))
              /\ lastFlush' = "sent"
              /\ rejected' = <<>>
         ELSE /\ observationQueue' = AfterThrow(SpliceHead(q), SpliceRest(q))
              /\ lastFlush' = "threw"
              /\ rejected' = SpliceHead(q)
              /\ UNCHANGED transmitted

\* flushObservations() run on queue q; thr: socket.emit throws.
\* Sets observationQueue', batchTimeout' and the history of the flush.
FlushObservations(q, thr) ==
    /\ batchTimeout' = FALSE
    /\ batchArmedAt' = 0
    /\ IF q = <<>>
         THEN /\ observationQueue' = q
              /\ lastFlush' = "empty"
              /\ UNCHANGED <<transmitted, rejected>>
         ELSE IF ~socket \/ ~connected
         THEN /\ observationQueue' = q
              /\ lastFlush' = "offline"
              /\ UNCHANGED <<transmitted, rejected>>
         ELSE IF ~thr
         THEN /\ observationQueue' = SpliceRest(q)
              /\ transmitted' = Append(transmitted, Message(SpliceHead(q)))
              /\ lastFlush' = "sent"
              /\ rejected' = <<>>
         ELSE /\ observationQueue' = AfterThrow(SpliceHead(q), SpliceRest(q))
              /\ lastFlush' = "threw"
              /\ rejected' = SpliceHead(q)
              /\ UNCHANGED transmitted

\* a flush in which emit throws leaves flushObservations by exception in the
\* headless build (no catch block)
FlushEscapes(q, thr) ==
    /\ variant = "headless"
    /\ thr
    /\ q # <<>>
    /\ socket /\ connected

\* mutant of SendObservation: the size test is > instead of >=
SendObservation_gt(o, thr) ==
    /\ accepted' = Append(accepted, o)
    /\ IF Len(observationQueue) + 1 > BatchMaxSize
         THEN FlushObservations(Append(observationQueue, o), thr)
         ELSE /\ observationQueue' = Append(observationQueue, o)
              /\ batchTimeout' = TRUE
              /\ batchArmedAt' = IF batchTimeout THEN batchArmedAt ELSE now
              /\ lastFlush' = "none"
              /\ UNCHANGED <<transmitted, rejected>>

\* mutant of SendObservation: the batching timer is never armed
SendObservation_noTimer(o, thr) ==
    /\ accepted' = Append(accepted, o)
    /\ IF Len(observationQueue) + 1 >= BatchMaxSize
         THEN FlushObservations(Append(observationQueue, o), thr)
         ELSE /\ observationQueue' = Append(observationQueue, o)
              /\ UNCHANGED <<batchTimeout, batchArmedAt>>
              /\ lastFlush' = "none"
              /\ UNCHANGED <<transmitted, rejected>>

\* sendObservation(o): push, arm the batching timer, flush on size.
\* The timer armed here is cleared again by the flush when one runs.
SendObservation(o, thr) ==
    /\ accepted' = Append(accepted, o)
    /\ IF Len(observationQueue) + 1 >= BatchMaxSize
         THEN FlushObservations(Append(observationQueue, o), thr)
         ELSE /\ observationQueue' = Append(observationQueue, o)
              /\ batchTimeout' = TRUE
              /\ batchArmedAt' = IF batchTimeout THEN batchArmedAt ELSE now
              /\ lastFlush' = "none"
              /\ UNCHANGED <<transmitted, rejected>>


\* connect(): create the socket, register the handlers, arm the 10 s timeout
Connect ==
    /\ socket' = TRUE
    /\ connectPromise' = "pending"
    /\ authTimer' = TRUE
    /\ authArmedAt' = now
    /\ UNCHANGED <<connected, authenticated, agentId, reconnectAttempts,
                   observationQueue, batchTimeout, batchArmedAt, authPending,
                   ioAttempts>>

\* socket.io gives up after reconnectionAttempts failed reconnections that
\* follow the first failed attempt
TransportTrying == socket /\ ~connected /\ ioAttempts <= MaxReconnectAttempts

\* socket.on('connect'): mark connected, reset the counter, authenticate()
OnConnect ==
    /\ alive /\ TransportTrying
    /\ connected' = TRUE
    /\ reconnectAttempts' = IF variant = "desktop" THEN 0 ELSE reconnectAttempts
    /\ authPending' = TRUE
    /\ ioAttempts' = 0
    /\ opened' = TRUE
    /\ lastFlush' = "none"
    /\ UNCHANGED <<variant, restartVars, statusVars, infoVars, ghostVars, storeVars, stallVars, callVars, cfgVars, rotVars, sStartedAt, requested, alive, now,
                   socket, authenticated, agentId,
                   observationQueue, batchTimeout, batchArmedAt, connectPromise, authTimer, authArmedAt,
                   engineVars, sessionVars, accepted, transmitted, rejected,
                   authAcked, startFailed>>

\* socket.on('watcher:auth_success')
OnAuthSuccess ==
    /\ alive /\ socket /\ connected /\ authPending
    /\ authenticated' = TRUE
    /\ agentId' = "brain"
    /\ connectPromise' = Resolve(connectPromise)
    /\ authPending' = FALSE
    /\ authAcked' = (authAcked \/ authTimer)
    /\ authRejected' = FALSE
    /\ lastFlush' = "none"
    /\ UNCHANGED <<variant, restartVars, statusVars, infoVars, storeVars, stallVars, callVars, orchVars, alive, now, socket, connected, reconnectAttempts,
                   observationQueue, batchTimeout, batchArmedAt, authTimer, authArmedAt, ioAttempts,
                   engineVars, sessionVars, accepted, transmitted, rejected,
                   startFailed>>

\* mutant of OnAuthError: the handler logs the error and does not reject
OnAuthError_logOnly ==
    /\ alive /\ socket /\ connected /\ authPending
    /\ authPending' = FALSE
    /\ authAcked' = (authAcked \/ authTimer)
    /\ authRejected' = ~authenticated
    /\ lastFlush' = "none"
    /\ UNCHANGED <<variant, restartVars, statusVars, infoVars, storeVars, stallVars, callVars, orchVars, alive, now, socket, connected, authenticated,
                   agentId, reconnectAttempts, observationQueue, batchTimeout,
                   batchArmedAt, connectPromise, authTimer, authArmedAt,
                   ioAttempts, engineVars, sessionVars, accepted, transmitted,
                   rejected, startFailed>>

\* socket.on('watcher:auth_error'): reject(new Error(error.error))
OnAuthError ==
    /\ alive /\ socket /\ connected /\ authPending
    /\ connectPromise' = Reject(connectPromise)
    /\ authPending' = FALSE
    /\ authAcked' = (authAcked \/ authTimer)
    /\ authRejected' = ~authenticated
    /\ lastFlush' = "none"
    /\ UNCHANGED <<variant, restartVars, statusVars, infoVars, storeVars, stallVars, callVars, orchVars, alive, now, socket, connected, authenticated,
                   agentId, reconnectAttempts, observationQueue, batchTimeout, batchArmedAt,
                   authTimer, authArmedAt, ioAttempts, engineVars, sessionVars, accepted,
                   transmitted, rejected, startFailed>>

\* socket.on('disconnect')
OnDisconnect ==
    /\ alive /\ socket /\ connected
    /\ connected' = FALSE
    /\ authenticated' = FALSE
    /\ authPending' = FALSE
    /\ lastFlush' = "none"
    /\ UNCHANGED <<variant, restartVars, statusVars, infoVars, ghostVars, storeVars, stallVars, callVars, orchVars, alive, now, socket, agentId, reconnectAttempts,
                   observationQueue, batchTimeout, batchArmedAt, connectPromise, authTimer, authArmedAt,
                   ioAttempts, engineVars, sessionVars, accepted, transmitted,
                   rejected, authAcked, startFailed>>

\* socket.on('connect_error'): the desktop build counts the errors and
\* rejects connect() at max_reconnect_attempts; the headless build only logs
OnConnectError ==
    /\ alive /\ TransportTrying
    /\ ioAttempts' = ioAttempts + 1
    /\ IF variant = "desktop"
         THEN /\ reconnectAttempts' = reconnectAttempts + 1
              /\ connectPromise' =
                    IF reconnectAttempts + 1 >= MaxReconnectAttempts
                      THEN Reject(connectPromise) ELSE connectPromise
         ELSE UNCHANGED <<reconnectAttempts, connectPromise>>
    /\ lastFlush' = "none"
    /\ UNCHANGED <<variant, restartVars, statusVars, infoVars, ghostVars, storeVars, stallVars, callVars, orchVars, alive, now, socket, connected, authenticated,
                   agentId, observationQueue, batchTimeout, batchArmedAt, authTimer, authArmedAt,
                   authPending, engineVars, sessionVars, accepted, transmitted,
                   rejected, authAcked, startFailed>>

\* mutant of AuthTimeout: the callback marks the channel authenticated but
\* does not settle the promise
AuthTimeout_noResolve ==
    /\ alive /\ authTimer /\ now > authArmedAt
    /\ authTimer' = FALSE
    /\ authArmedAt' = 0
    /\ IF ~authenticated
         THEN /\ authenticated' = TRUE
              /\ agentId' = "local"
         ELSE UNCHANGED <<authenticated, agentId>>
    /\ lastFlush' = "none"
    /\ UNCHANGED <<variant, restartVars, statusVars, infoVars, ghostVars, storeVars, stallVars, callVars, orchVars, alive, now, socket, connected, reconnectAttempts,
                   observationQueue, batchTimeout, batchArmedAt, connectPromise,
                   authPending, ioAttempts, engineVars, sessionVars, accepted,
                   transmitted, rejected, authAcked, startFailed>>

\* the setTimeout(..., 10000) callback of connect()
AuthTimeout ==
    /\ alive /\ authTimer /\ now > authArmedAt
    /\ authTimer' = FALSE
    /\ authArmedAt' = 0
    /\ IF ~authenticated
         THEN /\ authenticated' = TRUE
              /\ agentId' = "local"
              /\ connectPromise' = Resolve(connectPromise)
         ELSE UNCHANGED <<authenticated, agentId, connectPromise>>
    /\ lastFlush' = "none"
    /\ UNCHANGED <<variant, restartVars, statusVars, infoVars, ghostVars, storeVars, stallVars, callVars, orchVars, alive, now, socket, connected, reconnectAttempts,
                   observationQueue, batchTimeout, batchArmedAt, authPending, ioAttempts,
                   engineVars, sessionVars, accepted, transmitted, rejected,
                   authAcked, startFailed>>

\* the batching setTimeout callback: flushObservations().  An exception that
\* leaves the callback is uncaught and terminates the headless process.
BatchTimerFire ==
    /\ alive /\ batchTimeout /\ now > batchArmedAt
    /\ \E thr \in BOOLEAN :
         /\ FlushObservations(observationQueue, thr)
         /\ alive' = ~FlushEscapes(observationQueue, thr)
    /\ UNCHANGED <<variant, restartVars, statusVars, infoVars, ghostVars, storeVars, stallVars, callVars, orchVars, now, socket, connected, authenticated, agentId,
                   reconnectAttempts, connectPromise, authTimer, authArmedAt, authPending,
                   ioAttempts, engineVars, sessionVars, accepted, authAcked,
                   startFailed>>

\* disconnect(): final flush, close the transport, clear the flags.
\* socket.disconnect() runs the 'disconnect' handler when the socket was
\* connected.  In the headless build a throwing emit leaves disconnect() by
\* exception before the socket is closed.
Disconnect(thr) ==
    /\ FlushObservations(observationQueue, thr)
    /\ IF FlushEscapes(observationQueue, thr)
         THEN UNCHANGED <<socket, connected, authenticated, authPending>>
         ELSE /\ socket' = FALSE
              /\ connected' = FALSE
              /\ authenticated' =
                    IF variant = "desktop" THEN FALSE
                    ELSE IF socket /\ connected THEN FALSE ELSE authenticated
              /\ authPending' = FALSE
    /\ UNCHANGED <<agentId, reconnectAttempts, connectPromise, authTimer, authArmedAt,
                   ioAttempts>>

\* the millisecond clock advances
ClockTick ==
    /\ alive /\ now < MaxTime
    /\ now' = now + 1
    /\ lastFlush' = "none"
    /\ UNCHANGED <<variant, restartVars, statusVars, infoVars, ghostVars, storeVars, stallVars, callVars, orchVars, alive, uplinkVars, engineVars, sessionVars,
                   accepted, transmitted, rejected, authAcked, startFailed>>


\* ============================================================ source queue

\* a configured list of n sources; a source is identified by its position in
\* the configuration
SourceLists(n) ==
    { [i \in 1..n |-> [id |-> i, priority |-> pr[i]]] :
          pr \in [1..n -> 1..MaxPriority] }

\* the head of the default source list (priorities 1, 1, 2, 2, ...)
DefaultSources ==
    [i \in 1..QueueLength |-> [id |-> i, priority |-> IF i <= 2 THEN 1 ELSE 2]]

\* the comparator (a, b) => a.priority - b.priority
ComparePriority(a, b) == a.priority - b.priority

\* mutant of InsertSorted: an unstable sort, x goes in front of its equals
RECURSIVE InsertSorted_unstable(_, _)
InsertSorted_unstable(x, sorted) ==
    IF sorted = <<>> THEN <<x>>
    ELSE IF ComparePriority(Head(sorted), x) < 0
           THEN <<Head(sorted)>> \o InsertSorted_unstable(x, Tail(sorted))
           ELSE <<x>> \o sorted

\* one insertion of Array.prototype.sort, which is stable: x goes behind
\* every element that does not compare greater than x
RECURSIVE InsertSorted(_, _)
InsertSorted(x, sorted) ==
    IF sorted = <<>> THEN <<x>>
    ELSE IF ComparePriority(Head(sorted), x) <= 0
           THEN <<Head(sorted)>> \o InsertSorted(x, Tail(sorted))
           ELSE <<x>> \o sorted

\* sources.sort((a, b) => a.priority - b.priority)
RECURSIVE SortByPriority(_)
SortByPriority(arr) ==
    IF arr = <<>> THEN <<>>
    ELSE InsertSorted(arr[Len(arr)], SortByPriority(SubSeq(arr, 1, Len(arr) - 1)))

\* [array[i], array[j]] = [array[j], array[i]]
Swap(arr, i, j) == [arr EXCEPT ![i] = arr[j], ![j] = arr[i]]

\* shuffleArray from index i down: every value Math.random() can give for j
RECURSIVE ShuffleArray(_, _)
ShuffleArray(arr, i) ==
    IF i <= 1 THEN {arr}
    ELSE UNION { ShuffleArray(Swap(arr, i, j), i - 1) : j \in 1..i }

\* initSourceQueue(): the queues the constructor can build.  The headless
\* configuration has no rotation mode and its queue is always sorted by
\* priority; the desktop build sorts, shuffles or keeps the configured order.
InitSourceQueue(srcs, mode) ==
    IF variant = "headless" THEN {SortByPriority(srcs)}
    ELSE IF mode = "random" THEN ShuffleArray(srcs, Len(srcs))
    ELSE IF mode = "priority" THEN {SortByPriority(srcs)}
    ELSE {srcs}

\* ============================================================ WatcherEngine

InStreams(s) == \E i \in 1..Len(streams) : streams[i] = s

\* stop() is called on every session of S: the call is counted, and so is the
\* close() it makes when the session still holds its browser
StopCalled(S) ==
    /\ sStopCalls' = [s \in Streams |-> IF s \in S THEN sStopCalls[s] + 1
                                                   ELSE sStopCalls[s]]
    /\ sCloseCalls' = [s \in Streams |-> IF s \in S /\ sBrowser[s]
                                           THEN sCloseCalls[s] + 1
                                           ELSE sCloseCalls[s]]

\* the desktop engine has created its StreamManager
HasStreamManager == enginePc \in {"starting", "started"} \/ nextStreamId > 1

\* position of start() after the startStream call of loop index i returned
AfterStartStream(i) == IF i + 1 >= maxConcurrent THEN "started" ELSE "starting"

\* start(): mark the engine started and await uplink.connect()
EngineStart ==
    /\ alive /\ enginePc = "idle" /\ stopPc = "none"
    /\ enginePc' = "connecting"
    /\ engineRunning' = IF variant = "headless" THEN TRUE ELSE engineRunning
    /\ engineState' = IF variant = "desktop" THEN "starting" ELSE engineState
    /\ Connect
    /\ lastFlush' = "none"
    /\ UNCHANGED <<variant, restartVars, statusVars, infoVars, ghostVars, storeVars, stallVars, callVars, orchVars, alive, now, stopPc, startI, starting, streams,
                   currentSourceIndex, isPaused, nextStreamId, sessionVars,
                   accepted, transmitted, rejected, authAcked, startFailed>>

\* start() resumes after await uplink.connect(): a rejection leaves start()
\* before any stream is started (the headless entry point then exits, the
\* desktop engine enters state 'error')
EngineConnectSettled ==
    /\ alive /\ enginePc = "connecting"
    /\ connectPromise \in {"resolved", "rejected"}
    /\ IF connectPromise = "resolved"
         THEN /\ enginePc' = "starting"
              /\ UNCHANGED <<alive, engineState, startFailed>>
         ELSE /\ enginePc' = "failed"
              /\ startFailed' = TRUE
              /\ alive' = (variant = "desktop")
              /\ engineState' = IF variant = "desktop" THEN "error" ELSE engineState
    /\ lastFlush' = "none"
    /\ UNCHANGED <<variant, restartVars, statusVars, infoVars, ghostVars, storeVars, stallVars, callVars, orchVars, now, uplinkVars, stopPc, engineRunning, startI,
                   starting, streams, currentSourceIndex, isPaused,
                   nextStreamId, sessionVars, accepted, transmitted, rejected,
                   authAcked>>

\* mutant of NextSourceIndex: the cursor stops at the last position
NextSourceIndex_noWrap(index) == Min(index + 1, Len(sourceQueue) - 1)

\* mutant of NextSourceIndex: the cursor advances by two
NextSourceIndex_skip(index) == (index + 2) % Len(sourceQueue)

\* getNextSource(): the cursor after the call
NextSourceIndex(index) == (index + 1) % Len(sourceQueue)

\* one iteration of the start loop up to the first await of startStream:
\* getNextSource(), a fresh stream id, then the browser launch is awaited.
\* The headless StreamWatcher constructor stamps startedAt.
StartStreamBegin ==
    /\ alive /\ enginePc = "starting" /\ starting = 0
    /\ startI < maxConcurrent /\ nextStreamId <= MaxStreams
    /\ starting' = nextStreamId
    /\ nextStreamId' = nextStreamId + 1
    /\ currentSourceIndex' = NextSourceIndex(currentSourceIndex)
    /\ requested' = Append(requested, currentSourceIndex)
    /\ sSource' = [sSource EXCEPT ![nextStreamId] = currentSourceIndex]
    /\ sStartedAt' = IF variant = "headless"
                       THEN [sStartedAt EXCEPT ![nextStreamId] = now]
                       ELSE sStartedAt
    /\ sPhase' = [sPhase EXCEPT ![nextStreamId] = "launch"]
    /\ IF variant = "headless"
         THEN /\ sRunning' = [sRunning EXCEPT ![nextStreamId] = TRUE]
              /\ sState' = [sState EXCEPT ![nextStreamId] = "starting"]
         ELSE UNCHANGED <<sRunning, sState>>
    /\ lastFlush' = "none"
    /\ UNCHANGED <<variant, restartVars, statusVars, infoVars, ghostVars, storeVars, stallVars, callVars, cfgVars, rotVars, opened, alive, now, uplinkVars,
                   enginePc, stopPc,
                   engineRunning, engineState, startI, streams, isPaused,
                   sFrames, sTimer, sArmedAt, sInflight, sBrowser, accepted, transmitted,
                   rejected, authAcked, startFailed>>

\* headless StreamWatcher.start() settles and startStream() returns.
\* outcome "ok": playing, capture interval armed, watcher added to the Map;
\* "launchFail": puppeteer.launch threw; "navFail": a later await threw with
\* the browser open.  Failures are caught by startStream.  After the last
\* iteration start() arms the rotation interval and returns.
HStartStreamDone(outcome) ==
    /\ alive /\ variant = "headless" /\ starting # 0
    /\ sPhase[starting] = "launch"
    /\ sPhase' = [sPhase EXCEPT ![starting] = "none"]
    /\ sBrowser' = [sBrowser EXCEPT ![starting] = (outcome # "launchFail")]
    /\ IF outcome = "ok"
         THEN /\ sState' = [sState EXCEPT ![starting] = "playing"]
              /\ sTimer' = [sTimer EXCEPT ![starting] = TRUE]
              /\ sArmedAt' = [sArmedAt EXCEPT ![starting] = now]
              /\ streams' = Append(streams, starting)
         ELSE /\ sState' = [sState EXCEPT ![starting] = "error"]
              /\ UNCHANGED <<sTimer, sArmedAt, streams>>
    /\ starting' = 0
    /\ startI' = startI + 1
    /\ enginePc' = AfterStartStream(startI)
    /\ IF AfterStartStream(startI) = "started"
         THEN /\ rotationTimer' = TRUE
              /\ rotArmedAt' = now
         ELSE UNCHANGED <<rotationTimer, rotArmedAt>>
    /\ lastFlush' = "none"
    /\ UNCHANGED <<variant, restartVars, statusVars, infoVars, ghostVars, storeVars, stallVars, callVars, cfgVars, rotCount, rotPc, rotOldest, rotNew,
                   totalFramesCaptured, sStartedAt, opened, requested,
                   alive, now, uplinkVars, stopPc, engineRunning,
                   engineState, currentSourceIndex, isPaused, nextStreamId,
                   sRunning, sFrames, sInflight, sSource, accepted,
                   transmitted, rejected, authAcked, startFailed>>

\* desktop start() called again (engine:start from the UI, or the auto-start
\* timer) while the state is not 'running': the guard lets it pass, the
\* state becomes 'starting', a new UplinkManager replaces the reference to
\* the one in use and its connect() is awaited.  The UplinkManager and the
\* StreamManager of the first call stay as they are.
DStartAgain ==
    /\ alive /\ variant = "desktop"
    /\ enginePc \notin {"idle", "failed"} /\ stopPc = "none"
    /\ engineState \in {"starting", "paused"}
    /\ restartPc = "none"
    /\ restartPc' = "connecting"
    /\ engineState' = "starting"
    /\ lastFlush' = "none"
    /\ UNCHANGED <<variant, statusVars, infoVars, ghostVars, storeVars, stallVars, callVars, orchVars,
                   alive, now, uplinkVars, enginePc, stopPc, engineRunning, startI,
                   starting, streams, currentSourceIndex, isPaused, nextStreamId,
                   sessionVars, accepted, transmitted, rejected, authAcked,
                   startFailed>>

\* the second start() resumes after await uplinkManager.connect(): resolved,
\* it creates a second StreamManager and awaits its start(); rejected, the
\* state becomes 'error'
DRestartConnected(ok) ==
    /\ alive /\ variant = "desktop"
    /\ restartPc = "connecting"
    /\ restartPc' = IF ok THEN "starting" ELSE "failed"
    /\ engineState' = IF ok THEN engineState ELSE "error"
    /\ lastFlush' = "none"
    /\ UNCHANGED <<variant, statusVars, infoVars, ghostVars, storeVars, stallVars, callVars, orchVars,
                   alive, now, uplinkVars, enginePc, stopPc, engineRunning, startI,
                   starting, streams, currentSourceIndex, isPaused, nextStreamId,
                   sessionVars, accepted, transmitted, rejected, authAcked,
                   startFailed>>

\* the second start() resumes after await streamManager.start(): 'running',
\* or 'error' when a stream of the second set failed to start
DRestartStarted(ok) ==
    /\ alive /\ variant = "desktop"
    /\ restartPc = "starting"
    /\ restartPc' = IF ok THEN "done" ELSE "failed"
    /\ engineState' = IF ok THEN "running" ELSE "error"
    /\ lastFlush' = "none"
    /\ UNCHANGED <<variant, statusVars, infoVars, ghostVars, storeVars, stallVars, callVars, orchVars,
                   alive, now, uplinkVars, enginePc, stopPc, engineRunning, startI,
                   starting, streams, currentSourceIndex, isPaused, nextStreamId,
                   sessionVars, accepted, transmitted, rejected, authAcked,
                   startFailed>>

\* UplinkManagers of the engine whose connect() was called and whose
\* disconnect() was not
LiveUplinks ==
    (IF socket THEN 1 ELSE 0) + (IF restartPc # "none" THEN 1 ELSE 0)

\* StreamManagers the engine has created and not stopped
LiveStreamManagers ==
    (IF HasStreamManager /\ stopPc # "done" THEN 1 ELSE 0)
        + (IF restartPc \in {"starting", "done"} THEN 1 ELSE 0)

\* the desktop start() leaves by exception: state 'error', rethrown
DStartFails ==
    /\ enginePc' = "failed"
    /\ engineState' = "error"
    /\ startFailed' = TRUE
    /\ starting' = 0

\* desktop startStream after await browser.launch(): the stream enters the
\* Map in state 'starting' and navigation is awaited; a launch error is
\* rethrown up to WatcherEngine.start()
DLaunchDone(ok) ==
    /\ alive /\ variant = "desktop" /\ starting # 0
    /\ sPhase[starting] = "launch"
    /\ IF ok
         THEN /\ streams' = Append(streams, starting)
              /\ sState' = [sState EXCEPT ![starting] = "starting"]
              /\ sBrowser' = [sBrowser EXCEPT ![starting] = TRUE]
              /\ sPhase' = [sPhase EXCEPT ![starting] = "navigate"]
              /\ sStartedAt' = [sStartedAt EXCEPT ![starting] = now]
              /\ UNCHANGED <<enginePc, engineState, startFailed, starting>>
         ELSE /\ DStartFails
              /\ sPhase' = [sPhase EXCEPT ![starting] = "none"]
              /\ UNCHANGED <<streams, sState, sBrowser, sStartedAt>>
    /\ lastFlush' = "none"
    /\ UNCHANGED <<variant, restartVars, statusVars, infoVars, ghostVars, storeVars, stallVars, callVars, cfgVars, rotVars, opened, requested, alive, now, uplinkVars, stopPc, engineRunning,
                   startI, currentSourceIndex, isPaused, nextStreamId,
                   sRunning, sFrames, sTimer, sArmedAt, sInflight, sSource, accepted,
                   transmitted, rejected, authAcked>>

\* desktop startStream after await browser.navigateToSource(): state
\* 'playing', then startCaptureLoop() runs captureFrame() up to its first
\* await; after the last stream WatcherEngine.start() sets state 'running'
DNavigateDone(ok) ==
    /\ alive /\ variant = "desktop" /\ starting # 0
    /\ sPhase[starting] = "navigate"
    /\ IF ok
         THEN /\ sState' = [sState EXCEPT ![starting] = "playing"]
              /\ IF isPaused
                   THEN /\ sPhase' = [sPhase EXCEPT ![starting] = "none"]
                        /\ UNCHANGED sInflight
                   ELSE /\ sPhase' = [sPhase EXCEPT ![starting] = "capture"]
                        /\ sInflight' = [sInflight EXCEPT ![starting] = 1]
              /\ starting' = 0
              /\ startI' = startI + 1
              /\ enginePc' = AfterStartStream(startI)
              /\ engineState' = IF AfterStartStream(startI) = "started"
                                  THEN "running" ELSE engineState
              /\ UNCHANGED startFailed
         ELSE /\ DStartFails
              /\ sPhase' = [sPhase EXCEPT ![starting] = "none"]
              /\ UNCHANGED <<sState, sInflight, startI>>
    /\ lastFlush' = "none"
    /\ UNCHANGED <<variant, restartVars, statusVars, infoVars, ghostVars, storeVars, stallVars, callVars, orchVars, alive, now, uplinkVars, stopPc, engineRunning,
                   streams, currentSourceIndex, isPaused, nextStreamId,
                   sRunning, sFrames, sTimer, sArmedAt, sBrowser, sSource, accepted,
                   transmitted, rejected, authAcked>>


\* headless stop() up to await Promise.all(stopPromises): the rotation
\* interval is cleared and every watcher in the Map runs stop() up to its
\* await browser.close(), which clears the running flag and the capture
\* interval at once
HEngineStop ==
    /\ alive /\ variant = "headless"
    /\ stopPc = "none" /\ enginePc # "idle"
    /\ stopPc' = "closing"
    /\ engineRunning' = FALSE
    /\ rotationTimer' = FALSE
    /\ rotArmedAt' = 0
    /\ sRunning' = [s \in Streams |-> IF InStreams(s) THEN FALSE ELSE sRunning[s]]
    /\ sTimer' = [s \in Streams |-> IF InStreams(s) THEN FALSE ELSE sTimer[s]]
    /\ sArmedAt' = [s \in Streams |-> IF InStreams(s) THEN 0 ELSE sArmedAt[s]]
    /\ sPhase' = [s \in Streams |-> IF InStreams(s) THEN "closing" ELSE sPhase[s]]
    /\ StopCalled({ s \in Streams : InStreams(s) })
    /\ lastFlush' = "none"
    /\ UNCHANGED <<variant, restartVars, statusVars, infoVars, ghostVars, storeVars, stallVars, cfgVars, rotCount, rotPc, rotOldest, rotNew,
                   totalFramesCaptured, sStartedAt, opened, requested, alive, now, uplinkVars, enginePc, engineState,
                   startI, starting, streams, currentSourceIndex, isPaused,
                   nextStreamId, sState, sFrames, sInflight, sBrowser, sSource,
                   accepted, transmitted, rejected, authAcked, startFailed>>

\* mutant of WStop: close() is called without the test of this.browser
WStop_noBrowserTest(s) ==
    /\ alive /\ variant = "headless"
    /\ InStreams(s)
    /\ sStopCalls[s] < MaxStopCalls
    /\ sRunning' = [sRunning EXCEPT ![s] = FALSE]
    /\ sTimer' = [sTimer EXCEPT ![s] = FALSE]
    /\ sArmedAt' = [sArmedAt EXCEPT ![s] = 0]
    /\ sStopCalls' = [sStopCalls EXCEPT ![s] = @ + 1]
    /\ sCloseCalls' = [sCloseCalls EXCEPT ![s] = @ + 1]
    /\ sPhase' = [sPhase EXCEPT ![s] = "closing"]
    /\ UNCHANGED sState
    /\ lastFlush' = "none"
    /\ UNCHANGED <<variant, restartVars, statusVars, infoVars, ghostVars, storeVars, stallVars, orchVars, alive, now, uplinkVars, engineVars,
                   sFrames, sInflight, sBrowser, sSource, accepted, transmitted,
                   rejected, authAcked, startFailed>>

\* headless StreamWatcher.stop() called on a watcher the caller holds, up to
\* its await: the running flag and the capture interval are cleared; with
\* a browser, close() is awaited; without one stop() runs to its end and
\* writes state 'stopped'
WStop(s) ==
    /\ alive /\ variant = "headless"
    /\ InStreams(s)
    /\ sStopCalls[s] < MaxStopCalls
    /\ sRunning' = [sRunning EXCEPT ![s] = FALSE]
    /\ sTimer' = [sTimer EXCEPT ![s] = FALSE]
    /\ sArmedAt' = [sArmedAt EXCEPT ![s] = 0]
    /\ StopCalled({s})
    /\ IF sBrowser[s]
         THEN /\ sPhase' = [sPhase EXCEPT ![s] = "closing"]
              /\ UNCHANGED sState
         ELSE /\ sState' = [sState EXCEPT ![s] = "stopped"]
              /\ UNCHANGED sPhase
    /\ lastFlush' = "none"
    /\ UNCHANGED <<variant, restartVars, statusVars, infoVars, ghostVars, storeVars, stallVars, orchVars, alive, now, uplinkVars, engineVars,
                   sFrames, sInflight, sBrowser, sSource, accepted, transmitted,
                   rejected, authAcked, startFailed>>

\* headless StreamWatcher.stop() after await browser.close().  When close()
\* rejects, the watcher's stop() rejects with the browser reference and the
\* state as they were; Promise.all rejects with the first rejection, stop()
\* of the engine leaves by exception before streams.clear(), and the
\* shutdown handler's promise rejects with no handler attached (the process
\* ends or goes on, by the unhandled-rejection mode of the runtime).
HSessionClosed(s, ok) ==
    /\ alive /\ variant = "headless"
    /\ sPhase[s] = "closing"
    /\ IF ok
         THEN /\ sPhase' = [sPhase EXCEPT ![s] = "none"]
              /\ sBrowser' = [sBrowser EXCEPT ![s] = FALSE]
              /\ sState' = [sState EXCEPT ![s] = "stopped"]
              /\ UNCHANGED <<stopPc, alive>>
         ELSE /\ sPhase' = [sPhase EXCEPT ![s] = "closeFailed"]
              /\ UNCHANGED <<sBrowser, sState>>
              /\ IF stopPc = "closing"
                   THEN stopPc' = "failed" /\ alive' \in BOOLEAN
                   ELSE UNCHANGED <<stopPc, alive>>
    /\ lastFlush' = "none"
    /\ UNCHANGED <<variant, restartVars, statusVars, infoVars, ghostVars, storeVars, stallVars, callVars, orchVars, now, uplinkVars, enginePc, engineRunning,
                   engineState, startI, starting, streams, currentSourceIndex,
                   isPaused, nextStreamId, sRunning,
                   sFrames, sTimer, sArmedAt, sInflight, sSource, accepted, transmitted,
                   rejected, authAcked, startFailed>>

\* headless stop() after Promise.all: clear the Map, disconnect the uplink.
\* An emit that throws inside the final flush leaves disconnect() and stop()
\* by exception, as a failed session stop does.
HStopFinish ==
    /\ alive /\ variant = "headless"
    /\ stopPc = "closing"
    /\ \A s \in Streams : sPhase[s] # "closing"
    /\ streams' = <<>>
    /\ \E thr \in BOOLEAN :
         /\ Disconnect(thr)
         /\ IF FlushEscapes(observationQueue, thr)
              THEN stopPc' = "failed" /\ alive' \in BOOLEAN
              ELSE stopPc' = "done" /\ UNCHANGED alive
    /\ UNCHANGED <<variant, restartVars, statusVars, infoVars, ghostVars, storeVars, stallVars, callVars, orchVars, now, enginePc, engineRunning, engineState,
                   startI, starting, currentSourceIndex, isPaused,
                   nextStreamId, sessionVars, accepted, authAcked, startFailed>>

\* the headless shutdown handler: process.exit(0) after engine.stop()
ProcessExit ==
    /\ alive /\ variant = "headless"
    /\ stopPc = "done"
    /\ alive' = FALSE
    /\ lastFlush' = "none"
    /\ UNCHANGED <<variant, restartVars, statusVars, infoVars, ghostVars, storeVars, stallVars, callVars, orchVars, now, uplinkVars, engineVars, sessionVars,
                   accepted, transmitted, rejected, authAcked, startFailed>>

\* ------------------------------------------------------- headless rotation

\* streams.delete(id)
MapDelete(map, id) == SelectSeq(map, LAMBDA k : k # id)

\* mutant of RotateFire: a tick that finds the Map empty still takes the next
\* source off the cursor before it returns
RotateFire_takesSource ==
    /\ alive /\ variant = "headless"
    /\ rotationTimer /\ now > rotArmedAt
    /\ rotCount < MaxRotations
    /\ rotCount' = rotCount + 1
    /\ rotArmedAt' = now
    /\ IF ~engineRunning
         THEN /\ rotPc' = [rotPc EXCEPT ![rotCount + 1] = "returned"]
              /\ UNCHANGED <<rotOldest, totalFramesCaptured, sRunning, sTimer,
                             sArmedAt, currentSourceIndex, requested>>
         ELSE IF streams = <<>>
         THEN /\ rotPc' = [rotPc EXCEPT ![rotCount + 1] = "noop"]
              /\ currentSourceIndex' = NextSourceIndex(currentSourceIndex)
              /\ requested' = Append(requested, currentSourceIndex)
              /\ UNCHANGED <<rotOldest, totalFramesCaptured, sRunning, sTimer,
                             sArmedAt>>
         ELSE /\ rotPc' = [rotPc EXCEPT ![rotCount + 1] = "stopping"]
              /\ rotOldest' = [rotOldest EXCEPT ![rotCount + 1] = streams[1]]
              /\ totalFramesCaptured' = totalFramesCaptured + sFrames[streams[1]]
              /\ sRunning' = [sRunning EXCEPT ![streams[1]] = FALSE]
              /\ sTimer' = [sTimer EXCEPT ![streams[1]] = FALSE]
              /\ sArmedAt' = [sArmedAt EXCEPT ![streams[1]] = 0]
              /\ UNCHANGED <<currentSourceIndex, requested>>
    /\ StopCalled(IF engineRunning /\ streams # <<>> THEN {streams[1]} ELSE {})
    /\ lastFlush' = "none"
    /\ UNCHANGED <<variant, restartVars, statusVars, infoVars, ghostVars, storeVars, stallVars, alive, now, uplinkVars, enginePc, stopPc,
                   engineRunning, engineState, startI, starting, streams,
                   isPaused, nextStreamId, cfgVars,
                   rotationTimer, rotNew, sState, sFrames, sInflight, sPhase,
                   sBrowser, sSource, sStartedAt, accepted, transmitted,
                   rejected, authAcked, startFailed, opened>>

\* the rotation setInterval callback: rotateStreams() up to its first await.
\* It returns at once when the engine is not running or the Map is empty;
\* otherwise it takes the first key of the Map, adds that watcher's frame
\* count to the running total and calls its stop(), which clears the running
\* flag and the capture interval and awaits browser.close().
RotateFire ==
    /\ alive /\ variant = "headless"
    /\ rotationTimer /\ now > rotArmedAt
    /\ rotCount < MaxRotations
    /\ rotCount' = rotCount + 1
    /\ rotArmedAt' = now
    /\ IF ~engineRunning
         THEN /\ rotPc' = [rotPc EXCEPT ![rotCount + 1] = "returned"]
              /\ UNCHANGED <<rotOldest, totalFramesCaptured, sRunning, sTimer,
                             sArmedAt>>
         ELSE IF streams = <<>>
         THEN /\ rotPc' = [rotPc EXCEPT ![rotCount + 1] = "noop"]
              /\ UNCHANGED <<rotOldest, totalFramesCaptured, sRunning, sTimer,
                             sArmedAt>>
         ELSE /\ rotPc' = [rotPc EXCEPT ![rotCount + 1] = "stopping"]
              /\ rotOldest' = [rotOldest EXCEPT ![rotCount + 1] = streams[1]]
              /\ totalFramesCaptured' = totalFramesCaptured + sFrames[streams[1]]
              /\ sRunning' = [sRunning EXCEPT ![streams[1]] = FALSE]
              /\ sTimer' = [sTimer EXCEPT ![streams[1]] = FALSE]
              /\ sArmedAt' = [sArmedAt EXCEPT ![streams[1]] = 0]
    /\ StopCalled(IF engineRunning /\ streams # <<>> THEN {streams[1]} ELSE {})
    /\ lastFlush' = "none"
    /\ UNCHANGED <<variant, restartVars, statusVars, infoVars, ghostVars, storeVars, stallVars, alive, now, uplinkVars, engineVars, cfgVars,
                   rotationTimer, rotNew, sState, sFrames, sInflight, sPhase,
                   sBrowser, sSource, sStartedAt, accepted, transmitted,
                   rejected, authAcked, startFailed, opened, requested>>

\* rotateStreams() call r resumes after await oldestStream.stop(): stop()
\* ends (browser = null, state 'stopped'), the key is deleted, and
\* startStream(getNextSource()) constructs the next watcher and runs its
\* start() up to await puppeteer.launch()
RotateStopped(r) ==
    /\ alive /\ variant = "headless"
    /\ rotPc[r] = "stopping"
    /\ nextStreamId <= MaxStreams
    /\ rotPc' = [rotPc EXCEPT ![r] = "starting"]
    /\ rotNew' = [rotNew EXCEPT ![r] = nextStreamId]
    /\ streams' = MapDelete(streams, rotOldest[r])
    /\ currentSourceIndex' = NextSourceIndex(currentSourceIndex)
    /\ requested' = Append(requested, currentSourceIndex)
    /\ nextStreamId' = nextStreamId + 1
    /\ sBrowser' = [sBrowser EXCEPT ![rotOldest[r]] = FALSE]
    /\ sState' = [sState EXCEPT ![rotOldest[r]] = "stopped",
                                ![nextStreamId] = "starting"]
    /\ sSource' = [sSource EXCEPT ![nextStreamId] = currentSourceIndex]
    /\ sStartedAt' = [sStartedAt EXCEPT ![nextStreamId] = now]
    /\ sRunning' = [sRunning EXCEPT ![nextStreamId] = TRUE]
    /\ sPhase' = [sPhase EXCEPT ![nextStreamId] = "launch"]
    /\ lastFlush' = "none"
    /\ UNCHANGED <<variant, restartVars, statusVars, infoVars, ghostVars, storeVars, stallVars, callVars, alive, now, uplinkVars, enginePc, stopPc,
                   engineRunning, engineState, startI, starting, isPaused,
                   cfgVars, rotationTimer, rotArmedAt, rotCount, rotOldest,
                   totalFramesCaptured, sFrames, sTimer, sArmedAt, sInflight,
                   accepted, transmitted, rejected, authAcked, startFailed,
                   opened>>

\* rotateStreams() call r resumes after await watcher.start() inside
\* startStream(): on success the watcher plays, its capture interval is
\* armed and it enters the Map; a failure is caught and logged
RotateStarted(r, outcome) ==
    /\ alive /\ variant = "headless"
    /\ rotPc[r] = "starting"
    /\ rotPc' = [rotPc EXCEPT ![r] = "done"]
    /\ sPhase' = [sPhase EXCEPT ![rotNew[r]] = "none"]
    /\ sBrowser' = [sBrowser EXCEPT ![rotNew[r]] = (outcome # "launchFail")]
    /\ IF outcome = "ok"
         THEN /\ sState' = [sState EXCEPT ![rotNew[r]] = "playing"]
              /\ sTimer' = [sTimer EXCEPT ![rotNew[r]] = TRUE]
              /\ sArmedAt' = [sArmedAt EXCEPT ![rotNew[r]] = now]
              /\ streams' = Append(streams, rotNew[r])
         ELSE /\ sState' = [sState EXCEPT ![rotNew[r]] = "error"]
              /\ UNCHANGED <<sTimer, sArmedAt, streams>>
    /\ lastFlush' = "none"
    /\ UNCHANGED <<variant, restartVars, statusVars, infoVars, ghostVars, storeVars, stallVars, callVars, alive, now, uplinkVars, enginePc, stopPc,
                   engineRunning, engineState, startI, starting,
                   currentSourceIndex, isPaused, nextStreamId, cfgVars,
                   rotationTimer, rotArmedAt, rotCount, rotOldest, rotNew,
                   totalFramesCaptured, sRunning, sFrames, sInflight, sSource,
                   sStartedAt, accepted, transmitted, rejected, authAcked,
                   startFailed, opened, requested>>

\* desktop WatcherEngine.stop(): StreamManager.stop() marks every stream
\* 'stopped', closes its browser and clears the Map; then the uplink is
\* disconnected and the engine returns to 'idle'.  Neither callee suspends
\* on I/O, so no timer or socket event runs in between.  failAt > 0: the
\* close() of the stream at that Map position throws (removeBrowserView on a
\* destroyed window); the loop ends there and both stop() calls leave by
\* exception, before streams.clear() and before disconnect().
DEngineStop(failAt) ==
    /\ alive /\ variant = "desktop"
    /\ stopPc = "none" /\ enginePc # "idle"
    /\ failAt > 0 => HasStreamManager /\ failAt <= Len(streams)
    /\ StopCalled(IF ~HasStreamManager THEN {}
                  ELSE { streams[i] : i \in 1..(IF failAt = 0 THEN Len(streams) ELSE failAt) })
    /\ IF failAt = 0
         THEN /\ stopPc' = "done"
              /\ engineState' = "idle"
              /\ IF HasStreamManager
                   THEN /\ sState' = [s \in Streams |->
                              IF InStreams(s) THEN "stopped" ELSE sState[s]]
                        /\ sBrowser' = [s \in Streams |->
                              IF InStreams(s) THEN FALSE ELSE sBrowser[s]]
                        /\ streams' = <<>>
                   ELSE UNCHANGED <<sState, sBrowser, streams>>
              /\ \E thr \in BOOLEAN : Disconnect(thr)
         ELSE /\ stopPc' = "failed"
              /\ sState' = [s \in Streams |->
                              IF \E i \in 1..failAt : streams[i] = s
                                THEN "stopped" ELSE sState[s]]
              /\ sBrowser' = [s \in Streams |->
                              IF \E i \in 1..(failAt - 1) : streams[i] = s
                                THEN FALSE ELSE sBrowser[s]]
              /\ lastFlush' = "none"
              /\ UNCHANGED <<engineState, streams, uplinkVars, transmitted, rejected>>
    /\ UNCHANGED <<variant, restartVars, statusVars, infoVars, ghostVars, storeVars, stallVars, orchVars, alive, now, enginePc, engineRunning, startI,
                   starting, currentSourceIndex, isPaused, nextStreamId,
                   sRunning, sFrames, sTimer, sArmedAt, sInflight, sPhase, sSource,
                   accepted, authAcked, startFailed>>

\* desktop WatcherEngine.pause() -> StreamManager.pause()
DPause ==
    /\ alive /\ variant = "desktop"
    /\ engineState = "running"
    /\ engineState' = "paused"
    /\ isPaused' = TRUE
    /\ lastFlush' = "none"
    /\ UNCHANGED <<variant, restartVars, statusVars, infoVars, ghostVars, storeVars, stallVars, callVars, orchVars, alive, now, uplinkVars, enginePc, stopPc,
                   engineRunning, startI, starting, streams,
                   currentSourceIndex, nextStreamId, sessionVars, accepted,
                   transmitted, rejected, authAcked, startFailed>>

\* desktop WatcherEngine.resume() -> StreamManager.resume()
DResume ==
    /\ alive /\ variant = "desktop"
    /\ engineState = "paused"
    /\ engineState' = "running"
    /\ isPaused' = FALSE
    /\ lastFlush' = "none"
    /\ UNCHANGED <<variant, restartVars, statusVars, infoVars, ghostVars, storeVars, stallVars, callVars, orchVars, alive, now, uplinkVars, enginePc, stopPc,
                   engineRunning, startI, starting, streams,
                   currentSourceIndex, nextStreamId, sessionVars, accepted,
                   transmitted, rejected, authAcked, startFailed>>

\* ============================================================ capture loop

\* mutant of Observation: the frame id is the counter before its increment
Observation_preIncrement(s, frameId) ==
    [streamId |-> s, frameId |-> frameId - 1, seq |-> Len(accepted) + 1]

\* the observation a session builds right after incrementing its counter;
\* seq is the position in the order of submission (history only)
Observation(s, frameId) ==
    [streamId |-> s, frameId |-> frameId, seq |-> Len(accepted) + 1]

\* framesCaptured++ / frames_captured++
NextFrameId(n) == n + 1

\* frames captured or being captured by the headless sessions of the run
RECURSIVE FramesInRun(_)
FramesInRun(n) ==
    IF n = 0 THEN 0 ELSE sFrames[n] + sInflight[n] + FramesInRun(n - 1)

\* the sum of getStats().framesCaptured over the watchers of a Map
RECURSIVE MapFrames(_)
MapFrames(map) ==
    IF map = <<>> THEN 0 ELSE sFrames[Head(map)] + MapFrames(Tail(map))

\* the frames captured so far by the sessions 1..n
RECURSIVE CapturedBy(_)
CapturedBy(n) == IF n = 0 THEN 0 ELSE sFrames[n] + CapturedBy(n - 1)

\* reportStatus(): the total it sends
StatusTotal == totalFramesCaptured + MapFrames(streams)

\* the status interval's callback reportStatus(); the interval is armed and
\* cleared together with the rotation interval
ReportStatus ==
    /\ alive /\ variant = "headless"
    /\ rotationTimer
    /\ statusCount < MaxStatus
    /\ statusCount' = statusCount + 1
    /\ IF connected /\ authenticated
         THEN /\ statusReported' = StatusTotal
              /\ statusActual' = CapturedBy(MaxStreams)
         ELSE UNCHANGED <<statusReported, statusActual>>
    /\ lastFlush' = "none"
    /\ UNCHANGED <<variant, restartVars, infoVars, ghostVars, storeVars, stallVars, callVars, orchVars, alive, now,
                   uplinkVars, engineVars, sessionVars, accepted, transmitted,
                   rejected, authAcked, startFailed>>

\* headless setInterval callback up to await page.evaluate(): an interval
\* callback does not wait for the previous one, so ticks may overlap
HTickFire(s) ==
    /\ alive /\ variant = "headless"
    /\ sTimer[s] /\ now > sArmedAt[s]
    /\ sInflight[s] < MaxInflight
    /\ FramesInRun(MaxStreams) < MaxFrames
    /\ sRunning[s] /\ sBrowser[s]
    /\ sInflight' = [sInflight EXCEPT ![s] = @ + 1]
    /\ sArmedAt' = [sArmedAt EXCEPT ![s] = now]
    /\ lastFlush' = "none"
    /\ UNCHANGED <<variant, restartVars, statusVars, infoVars, ghostVars, storeVars, stallVars, callVars, orchVars, alive, now, uplinkVars, engineVars, sState,
                   sRunning, sFrames, sTimer, sPhase, sBrowser, sSource,
                   accepted, transmitted, rejected, authAcked, startFailed>>

\* headless tick after await page.evaluate(): on success count the frame,
\* build the observation and call uplink.sendObservation(); every exception
\* (evaluate, or emit inside the size flush) ends in the catch block
HTickDone(s, ok, thr) ==
    /\ alive /\ variant = "headless"
    /\ sInflight[s] > 0
    /\ sInflight' = [sInflight EXCEPT ![s] = @ - 1]
    /\ IF ok
         THEN /\ sFrames' = [sFrames EXCEPT ![s] = NextFrameId(@)]
              /\ SendObservation(Observation(s, NextFrameId(sFrames[s])), thr)
              /\ currentSource' = sSource[s]
         ELSE /\ lastFlush' = "none"
              /\ UNCHANGED <<currentSource, sFrames, observationQueue, batchTimeout, batchArmedAt,
                             accepted, transmitted, rejected>>
    /\ UNCHANGED <<variant, restartVars, statusVars, ghostVars, storeVars, stallVars, callVars, orchVars, alive, now, socket, connected, authenticated,
                   agentId, reconnectAttempts, connectPromise, authTimer, authArmedAt,
                   authPending, ioAttempts, engineVars, sState, sRunning,
                   sTimer, sArmedAt, sPhase, sBrowser, sSource, authAcked, startFailed>>

\* desktop captureFrame() started by its setTimeout: return at once (and
\* never reschedule) when paused or stopped, else await captureScreenshot()
DTimerFire(s) ==
    /\ alive /\ variant = "desktop"
    /\ sTimer[s] /\ now > sArmedAt[s]
    /\ sTimer' = [sTimer EXCEPT ![s] = FALSE]
    /\ sArmedAt' = [sArmedAt EXCEPT ![s] = 0]
    /\ IF isPaused \/ sState[s] = "stopped"
         THEN UNCHANGED <<sInflight, sPhase>>
         ELSE /\ sInflight' = [sInflight EXCEPT ![s] = 1]
              /\ sPhase' = [sPhase EXCEPT ![s] = "capture"]
    /\ lastFlush' = "none"
    /\ UNCHANGED <<variant, restartVars, statusVars, infoVars, ghostVars, storeVars, stallVars, callVars, orchVars, alive, now, uplinkVars, engineVars, sState,
                   sRunning, sFrames, sBrowser, sSource, accepted, transmitted,
                   rejected, authAcked, startFailed>>

\* desktop captureFrame() after await captureScreenshot(): with a frame,
\* count it and submit the observation; then await getPlaybackState()
DCaptureDone(s, frame, thr) ==
    /\ alive /\ variant = "desktop"
    /\ sPhase[s] = "capture"
    /\ frame => sFrames[s] < MaxFrames
    /\ sPhase' = [sPhase EXCEPT ![s] = "playback"]
    /\ IF frame
         THEN /\ sFrames' = [sFrames EXCEPT ![s] = NextFrameId(@)]
              /\ SendObservation(Observation(s, NextFrameId(sFrames[s])), thr)
         ELSE /\ lastFlush' = "none"
              /\ UNCHANGED <<sFrames, observationQueue, batchTimeout, batchArmedAt,
                             accepted, transmitted, rejected>>
    /\ UNCHANGED <<variant, restartVars, statusVars, infoVars, ghostVars, storeVars, stallVars, callVars, orchVars, alive, now, socket, connected, authenticated,
                   agentId, reconnectAttempts, connectPromise, authTimer, authArmedAt,
                   authPending, ioAttempts, engineVars, sState, sRunning,
                   sTimer, sArmedAt, sInflight, sBrowser, sSource, authAcked, startFailed>>

\* the state written from the playback report
PlaybackStateOf(old, isPlaying, isBuffering) ==
    IF isPlaying THEN "playing" ELSE IF isBuffering THEN "buffering" ELSE old

\* captureFrame() after await getPlaybackState(): write the state, then
\* reschedule unless the stream left the Map or reached error/stopped.
\* getPlaybackState() of a closed browser (browserView null on entry, or
\* nulled by close() before its last statement) reports neither playing
\* nor buffering.
WritePlaybackState(s, isPlaying, isBuffering) ==
    /\ alive /\ variant = "desktop"
    /\ sPhase[s] = "playback"
    /\ isPlaying \/ isBuffering => sBrowser[s]
    /\ sPhase' = [sPhase EXCEPT ![s] = "none"]
    /\ sInflight' = [sInflight EXCEPT ![s] = 0]
    /\ sState' = [sState EXCEPT ![s] = PlaybackStateOf(@, isPlaying, isBuffering)]
    /\ sTimer' = [sTimer EXCEPT ![s] =
                    /\ InStreams(s)
                    /\ PlaybackStateOf(sState[s], isPlaying, isBuffering)
                          \notin {"error", "stopped"}]
    /\ sArmedAt' = [sArmedAt EXCEPT ![s] = IF sTimer'[s] THEN now ELSE 0]
    /\ lastFlush' = "none"
    /\ UNCHANGED <<variant, restartVars, statusVars, infoVars, ghostVars, storeVars, callVars, orchVars, alive, now, uplinkVars, engineVars, sRunning,
                   sFrames, sBrowser, sSource, accepted, transmitted, rejected,
                   authAcked, startFailed>>

\* desktop capture tick from getPlaybackState() on.  StreamManager never
\* reads isStalled, so this action leaves the stall detector of the browser
\* out; DPlaybackReport is the same step with the reported position.
DPlaybackDone(s, isPlaying, isBuffering) ==
    /\ WritePlaybackState(s, isPlaying, isBuffering)
    /\ UNCHANGED stallVars

\* detectStall(currentTime): the counters after the call
DetectStall(s, currentTime) ==
    IF currentTime = lastPlaybackTime[s]
      THEN /\ stallCheckCount' = [stallCheckCount EXCEPT ![s] = @ + 1]
           /\ UNCHANGED lastPlaybackTime
      ELSE /\ stallCheckCount' = [stallCheckCount EXCEPT ![s] = 0]
           /\ lastPlaybackTime' = [lastPlaybackTime EXCEPT ![s] = currentTime]

\* isStalled as the last detectStall() call returned it
IsStalled(s) == stallCheckCount[s] >= StallThreshold

\* the latest StallThreshold reported positions
Latest(rs) ==
    IF Len(rs) <= StallThreshold THEN rs
    ELSE SubSeq(rs, Len(rs) - StallThreshold + 1, Len(rs))

\* desktop capture tick from getPlaybackState() on, with the position the
\* page reports.  ok: executeJavaScript succeeded and detectStall() ran;
\* otherwise the catch block reports position 0, not playing, not buffering.
DPlaybackReport(s, ok, currentTime, isPlaying, isBuffering) ==
    /\ ok /\ currentTime = lastPlaybackTime[s] => stallCheckCount[s] < MaxStallCount
    /\ ~ok => currentTime = 0 /\ ~isPlaying /\ ~isBuffering
    /\ ok => sBrowser[s]
    /\ WritePlaybackState(s, isPlaying, isBuffering)
    /\ IF ok THEN DetectStall(s, currentTime)
             ELSE UNCHANGED <<lastPlaybackTime, stallCheckCount>>
    /\ readings' = [readings EXCEPT ![s] = Latest(Append(@, currentTime))]

\* ============================================================ KnowledgeStore

Categories == 1..MaxCategories

\* a categoryStats entry as updateCategoryStats()/updateWatchTime() create it
\* (a category without entry reads the same)
EmptyStats == [insightsCount |-> 0, incidentsCount |-> 0, hoursWatched |-> 0]

\* the insights drawn as arguments: video, frame time around the window,
\* content, category
Insights ==
    [videoId : 1..MaxVideos,
     frameTime : {0, DedupWindow - 1, DedupWindow},
     content : 1..MaxContents,
     category : Categories]

NoInsight == [videoId |-> 0, frameTime |-> 0, content |-> 0, category |-> 0]

Abs(x) == IF x < 0 THEN -x ELSE x

\* mutant of Similar: the window is one short
Similar_narrow(i, insight) ==
    /\ i.videoId = insight.videoId
    /\ Abs(i.frameTime - insight.frameTime) < DedupWindow - 1
    /\ i.content = insight.content

\* the test addInsight() applies to a stored insight i
Similar(i, insight) ==
    /\ i.videoId = insight.videoId
    /\ Abs(i.frameTime - insight.frameTime) < DedupWindow
    /\ i.content = insight.content

\* insights.some(...)
Exists(list, insight) == \E j \in 1..Len(list) : Similar(list[j], insight)

\* JSON.stringify(this.knowledgeBase): the text of the knowledge base
KnowledgeText ==
    [insights |-> kInsights, totalInsights |-> kTotalInsights,
     totalIncidents |-> kTotalIncidents, totalPatterns |-> kTotalPatterns,
     stats |-> kStats]

\* what the store leaves alone in an update of the knowledge base
StoreRest == <<kPc, kSaveInterval, kWrites, kFile, kSaves>>

\* every variable that is not the store's
NonStore == <<variant, alive, now, uplinkVars, engineVars, sessionVars, histVars,
              orchVars, stallVars, callVars, ghostVars, infoVars, statusVars,
              restartVars>>

\* initialize(): no knowledge.json exists yet; the periodic save is armed
KInitialize ==
    /\ kPc = "new"
    /\ kPc' = "ready"
    /\ kSaveInterval' = TRUE
    /\ UNCHANGED <<kInsights, kTotalInsights, kTotalIncidents, kTotalPatterns,
                   kStats, kDirty, kWrites, kFile, kCalls, kSaves, kLastInsight>>
    /\ UNCHANGED NonStore

\* addInsight(insight)
AddInsight(insight) ==
    /\ kPc # "new"
    /\ kCalls < MaxStoreCalls
    /\ kCalls' = kCalls + 1
    /\ kLastInsight' = insight
    /\ IF ~Exists(kInsights, insight)
         THEN /\ kInsights' = Append(kInsights, insight)
              /\ kTotalInsights' = kTotalInsights + 1
              /\ kStats' = [kStats EXCEPT ![insight.category].insightsCount = @ + 1]
              /\ kDirty' = TRUE
         ELSE UNCHANGED <<kInsights, kTotalInsights, kStats, kDirty>>
    /\ UNCHANGED <<kTotalIncidents, kTotalPatterns, StoreRest>>
    /\ UNCHANGED NonStore

\* addIncident(incident)
AddIncident(category) ==
    /\ kPc # "new"
    /\ kCalls < MaxStoreCalls
    /\ kCalls' = kCalls + 1
    /\ kTotalIncidents' = kTotalIncidents + 1
    /\ kStats' = [kStats EXCEPT ![category].incidentsCount = @ + 1]
    /\ kDirty' = TRUE
    /\ UNCHANGED <<kInsights, kTotalInsights, kTotalPatterns, kLastInsight, StoreRest>>
    /\ UNCHANGED NonStore

\* addStrategyPattern(pattern)
AddStrategyPattern ==
    /\ kPc # "new"
    /\ kCalls < MaxStoreCalls
    /\ kCalls' = kCalls + 1
    /\ kTotalPatterns' = kTotalPatterns + 1
    /\ kDirty' = TRUE
    /\ UNCHANGED <<kInsights, kTotalInsights, kTotalIncidents, kStats, kLastInsight,
                   StoreRest>>
    /\ UNCHANGED NonStore

\* updateWatchTime(category, hours)
UpdateWatchTime(category, hours) ==
    /\ kPc # "new"
    /\ kCalls < MaxStoreCalls
    /\ kCalls' = kCalls + 1
    /\ kStats' = [kStats EXCEPT ![category].hoursWatched = @ + hours]
    /\ kDirty' = TRUE
    /\ UNCHANGED <<kInsights, kTotalInsights, kTotalIncidents, kTotalPatterns,
                   kLastInsight, StoreRest>>
    /\ UNCHANGED NonStore

\* save() up to await writeFile(): nothing when not dirty, else the text of
\* the knowledge base as it is now is handed to writeFile
SaveBegin ==
    /\ kSaves' = kSaves + 1
    /\ kWrites' = IF kDirty THEN Append(kWrites, KnowledgeText) ELSE kWrites

\* the periodic save: setInterval(() => this.save(), 60000)
KSaveTick ==
    /\ kSaveInterval
    /\ kSaves < MaxSaves
    /\ SaveBegin
    /\ UNCHANGED <<kPc, kInsights, kTotalInsights, kTotalIncidents, kTotalPatterns,
                   kStats, kDirty, kSaveInterval, kFile, kCalls, kLastInsight>>
    /\ UNCHANGED NonStore

\* save() after await writeFile() of write j: on success the file holds the
\* text handed over and dirty is cleared; a failed write is logged
KWriteDone(j, ok) ==
    /\ j \in 1..Len(kWrites)
    /\ kWrites' = SubSeq(kWrites, 1, j - 1) \o SubSeq(kWrites, j + 1, Len(kWrites))
    /\ IF ok
         THEN /\ kFile' = <<kWrites[j]>>
              /\ kDirty' = FALSE
         ELSE UNCHANGED <<kFile, kDirty>>
    /\ UNCHANGED <<kPc, kInsights, kTotalInsights, kTotalIncidents, kTotalPatterns,
                   kStats, kSaveInterval, kCalls, kSaves, kLastInsight>>
    /\ UNCHANGED NonStore

\* shutdown(): clear the interval and save()
KShutdown ==
    /\ kPc = "ready"
    /\ kPc' = "shutdown"
    /\ kSaveInterval' = FALSE
    /\ SaveBegin
    /\ UNCHANGED <<kInsights, kTotalInsights, kTotalIncidents, kTotalPatterns,
                   kStats, kDirty, kFile, kCalls, kLastInsight>>
    /\ UNCHANGED NonStore

\* ============================================================ specification

\* the state after construction, apart from the configuration and the queue
InitState ==
    /\ variant \in Variants
    /\ alive = TRUE
    /\ now = 0
    /\ socket = FALSE /\ connected = FALSE /\ authenticated = FALSE
    /\ agentId = "" /\ reconnectAttempts = 0
    /\ observationQueue = <<>> /\ batchTimeout = FALSE /\ batchArmedAt = 0
    /\ connectPromise = "none" /\ authTimer = FALSE /\ authArmedAt = 0
    /\ authPending = FALSE /\ ioAttempts = 0
    /\ enginePc = "idle" /\ stopPc = "none"
    /\ engineRunning = FALSE /\ engineState = "idle"
    /\ startI = 0 /\ starting = 0 /\ streams = <<>>
    /\ currentSourceIndex = 0 /\ isPaused = FALSE /\ nextStreamId = 1
    /\ sState = [s \in Streams |-> "none"]
    /\ sRunning = [s \in Streams |-> FALSE]
    /\ sFrames = [s \in Streams |-> 0]
    /\ sTimer = [s \in Streams |-> FALSE]
    /\ sArmedAt = [s \in Streams |-> 0]
    /\ sInflight = [s \in Streams |-> 0]
    /\ sPhase = [s \in Streams |-> "none"]
    /\ sBrowser = [s \in Streams |-> FALSE]
    /\ sSource = [s \in Streams |-> 0]
    /\ accepted = <<>> /\ transmitted = <<>>
    /\ lastFlush = "none" /\ rejected = <<>>
    /\ authAcked = FALSE /\ startFailed = FALSE
    /\ opened = FALSE /\ requested = <<>>
    /\ rotationTimer = FALSE /\ rotArmedAt = 0 /\ rotCount = 0
    /\ rotPc = [r \in Rotations |-> "idle"]
    /\ rotOldest = [r \in Rotations |-> 0]
    /\ rotNew = [r \in Rotations |-> 0]
    /\ totalFramesCaptured = 0
    /\ sStartedAt = [s \in Streams |-> 0]
    /\ lastPlaybackTime = [s \in Streams |-> 0]
    /\ stallCheckCount = [s \in Streams |-> 0]
    /\ readings = [s \in Streams |-> <<>>]
    /\ sStopCalls = [s \in Streams |-> 0]
    /\ sCloseCalls = [s \in Streams |-> 0]
    /\ kPc = "new"
    /\ kInsights = <<>>
    /\ kTotalInsights = 0 /\ kTotalIncidents = 0 /\ kTotalPatterns = 0
    /\ kStats = [c \in Categories |-> EmptyStats]
    /\ kDirty = FALSE /\ kSaveInterval = FALSE
    /\ kWrites = <<>> /\ kFile = <<>>
    /\ kCalls = 0 /\ kSaves = 0
    /\ kLastInsight = NoInsight
    /\ authRejected = FALSE
    /\ currentSource = -1
    /\ statusCount = 0 /\ statusReported = -1 /\ statusActual = 0
    /\ restartPc = "none"

\* one stream at a time and priority mode (the desktop defaults), the
\* default sources
Init ==
    /\ InitState
    /\ maxConcurrent = MaxConcurrent
    /\ sources = DefaultSources
    /\ rotationMode = "priority"
    /\ sourceQueue \in InitSourceQueue(sources, rotationMode)

\* Spec covers the first MaxTime milliseconds of a run; the rotation
\* interval armed by start() (rotationIntervalMinutes, 20 by default) does
\* not elapse in it, and its ticks run under OrchSpec.
Next ==
    \/ EngineStart
    \/ EngineConnectSettled
    \/ OnConnect
    \/ OnAuthSuccess
    \/ OnAuthError
    \/ OnDisconnect
    \/ OnConnectError
    \/ AuthTimeout
    \/ BatchTimerFire
    \/ ClockTick
    \/ StartStreamBegin
    \/ \E outcome \in {"ok", "launchFail", "navFail"} : HStartStreamDone(outcome)
    \/ \E ok \in BOOLEAN : DLaunchDone(ok)
    \/ \E ok \in BOOLEAN : DNavigateDone(ok)
    \/ HEngineStop
    \/ \E s \in Streams : \E ok \in BOOLEAN : HSessionClosed(s, ok)
    \/ HStopFinish
    \/ ProcessExit
    \/ \E failAt \in 0..Len(streams) : DEngineStop(failAt)
    \/ DPause
    \/ DResume
    \/ \E s \in Streams : HTickFire(s)
    \/ \E s \in Streams : \E ok \in BOOLEAN : \E thr \in BOOLEAN : HTickDone(s, ok, thr)
    \/ \E s \in Streams : DTimerFire(s)
    \/ \E s \in Streams : \E frame \in BOOLEAN : \E thr \in BOOLEAN : DCaptureDone(s, frame, thr)
    \/ \E s \in Streams : \E isPlaying \in BOOLEAN : \E isBuffering \in BOOLEAN :
           DPlaybackDone(s, isPlaying, isBuffering)

Spec == Init /\ [][Next]_vars

\* ---- the source queue on its own: construction from a configuration, then
\* calls of getNextSource()

\* the constructor runs initSourceQueue()
Construct ==
    /\ sourceQueue = <<>>
    /\ sourceQueue' \in InitSourceQueue(sources, rotationMode)
    /\ UNCHANGED <<variant, restartVars, statusVars, infoVars, ghostVars, storeVars, stallVars, callVars, alive, now, uplinkVars, engineVars, sessionVars,
                   histVars, maxConcurrent, sources, rotationMode, rotVars,
                   sStartedAt, opened, requested>>

\* getNextSource(): return the source under the cursor, advance the cursor
GetNextSource ==
    /\ sourceQueue # <<>>
    /\ Len(requested) < Len(sourceQueue) + MaxExtraCalls
    /\ requested' = Append(requested, currentSourceIndex)
    /\ currentSourceIndex' = NextSourceIndex(currentSourceIndex)
    /\ UNCHANGED <<variant, restartVars, statusVars, infoVars, ghostVars, storeVars, stallVars, callVars, alive, now, uplinkVars, enginePc, stopPc,
                   engineRunning, engineState, startI, starting, streams,
                   isPaused, nextStreamId, sessionVars, histVars, cfgVars,
                   rotVars, sStartedAt, opened>>

\* every configuration of up to QueueLength sources; the headless
\* configuration has no rotation mode (its queue is priority-sorted)
QueueInit ==
    /\ InitState
    /\ maxConcurrent = MaxConcurrent
    /\ sources \in UNION { SourceLists(n) : n \in 1..QueueLength }
    /\ rotationMode \in IF variant = "desktop" THEN Modes ELSE {"priority"}
    /\ sourceQueue = <<>>

QueueNext ==
    \/ Construct
    \/ GetNextSource

QueueSpec == QueueInit /\ [][QueueNext]_vars

\* ---- the headless orchestrator with its rotation interval: start(), the
\* rotation ticks and stop() in every interleaving, on a channel that connects
\* and authenticates.  rotateStreams() reads a session only through its Map
\* entry and its frame count; the capture ticks themselves run under Spec.
OrchInit ==
    /\ InitState
    /\ variant = "headless"
    /\ maxConcurrent \in 1..MaxPool
    /\ sources = DefaultSources
    /\ rotationMode = "priority"
    /\ sourceQueue \in InitSourceQueue(sources, rotationMode)

OrchNext ==
    \/ EngineStart
    \/ EngineConnectSettled
    \/ OnConnect
    \/ OnAuthSuccess
    \/ ClockTick
    \/ StartStreamBegin
    \/ \E outcome \in {"ok", "launchFail", "navFail"} : HStartStreamDone(outcome)
    \/ RotateFire
    \/ \E r \in Rotations : RotateStopped(r)
    \/ \E r \in Rotations : \E outcome \in {"ok", "launchFail", "navFail"} :
           RotateStarted(r, outcome)
    \/ HEngineStop
    \/ \E s \in Streams : \E ok \in BOOLEAN : HSessionClosed(s, ok)
    \/ HStopFinish
    \/ ProcessExit

OrchSpec == OrchInit /\ [][OrchNext]_vars

\* ---- the desktop capture loop with the playback position of every tick:
\* start(), the capture ticks with the stall detector of the browser, stop()
StallInit ==
    /\ Init
    /\ variant = "desktop"

StallNext ==
    \/ EngineStart
    \/ EngineConnectSettled
    \/ OnConnect
    \/ OnAuthSuccess
    \/ ClockTick
    \/ StartStreamBegin
    \/ \E ok \in BOOLEAN : DLaunchDone(ok)
    \/ \E ok \in BOOLEAN : DNavigateDone(ok)
    \/ \E s \in Streams : DTimerFire(s)
    \/ \E s \in Streams : \E frame \in BOOLEAN : \E thr \in BOOLEAN : DCaptureDone(s, frame, thr)
    \/ \E s \in Streams : \E ok \in BOOLEAN : \E currentTime \in 0..MaxPosition :
         \E isPlaying \in BOOLEAN : \E isBuffering \in BOOLEAN :
           DPlaybackReport(s, ok, currentTime, isPlaying, isBuffering)
    \/ \E failAt \in 0..Len(streams) : DEngineStop(failAt)

StallSpec == StallInit /\ [][StallNext]_vars

\* ---- the insight store on its own: any sequence of addInsight calls on a
\* store that starts empty
InsightInit ==
    /\ Init
    /\ variant = "headless"

InsightNext ==
    \/ KInitialize
    \/ \E insight \in Insights : AddInsight(insight)

InsightSpec == InsightInit /\ [][InsightNext]_vars

\* ---- the knowledge store with its saves: updates of every kind, the
\* periodic save, the completion of the file writes in any order, shutdown
StoreNext ==
    \/ KInitialize
    \/ \E insight \in { i \in Insights : i.videoId = 1 /\ i.content = 1 } :
           AddInsight(insight)
    \/ \E category \in Categories : AddIncident(category)
    \/ AddStrategyPattern
    \/ \E category \in Categories : \E hours \in 0..MaxHours :
           UpdateWatchTime(category, hours)
    \/ KSaveTick
    \/ \E j \in 1..MaxSaves : \E ok \in BOOLEAN : KWriteDone(j, ok)
    \/ KShutdown

StoreSpec == InsightInit /\ [][StoreNext]_vars

\* ---- the desktop engine with start() called whenever the UI or the
\* auto-start timer calls it; pause and resume; no stop
RestartInit ==
    /\ Init
    /\ variant = "desktop"

RestartNext ==
    \/ EngineStart
    \/ EngineConnectSettled
    \/ OnConnect
    \/ OnAuthSuccess
    \/ OnAuthError
    \/ AuthTimeout
    \/ ClockTick
    \/ StartStreamBegin
    \/ \E ok \in BOOLEAN : DLaunchDone(ok)
    \/ \E ok \in BOOLEAN : DNavigateDone(ok)
    \/ DPause
    \/ DResume
    \/ DStartAgain
    \/ \E ok \in BOOLEAN : DRestartConnected(ok)
    \/ \E ok \in BOOLEAN : DRestartStarted(ok)

RestartSpec == RestartInit /\ [][RestartNext]_vars

\* ---- several sessions capturing on one uplink channel: start with
\* MaxPool concurrent streams, capture ticks, the batch timer
SharedInit ==
    /\ InitState
    /\ maxConcurrent = MaxPool
    /\ sources = DefaultSources
    /\ rotationMode = "priority"
    /\ sourceQueue \in InitSourceQueue(sources, rotationMode)

SharedNext ==
    \/ EngineStart
    \/ EngineConnectSettled
    \/ OnConnect
    \/ OnAuthSuccess
    \/ ClockTick
    \/ StartStreamBegin
    \/ HStartStreamDone("ok")
    \/ DLaunchDone(TRUE)
    \/ DNavigateDone(TRUE)
    \/ \E s \in Streams : HTickFire(s)
    \/ \E s \in Streams : \E ok \in BOOLEAN : HTickDone(s, ok, FALSE)
    \/ \E s \in Streams : DTimerFire(s)
    \/ \E s \in Streams : \E frame \in BOOLEAN : DCaptureDone(s, frame, FALSE)
    \/ \E s \in Streams : \E isPlaying \in BOOLEAN : DPlaybackDone(s, isPlaying, FALSE)
    \/ BatchTimerFire

SharedSpec == SharedInit /\ [][SharedNext]_vars

\* ---- one headless StreamWatcher and its caller: the watcher is started,
\* its capture ticks run, and the caller calls stop() on it at any time and
\* any number of times
SessionInit ==
    /\ Init
    /\ variant = "headless"

SessionNext ==
    \/ EngineStart
    \/ EngineConnectSettled
    \/ OnConnect
    \/ OnAuthSuccess
    \/ ClockTick
    \/ StartStreamBegin
    \/ \E outcome \in {"ok", "launchFail", "navFail"} : HStartStreamDone(outcome)
    \/ \E s \in Streams : HTickFire(s)
    \/ \E s \in Streams : \E ok \in BOOLEAN : \E thr \in BOOLEAN : HTickDone(s, ok, thr)
    \/ BatchTimerFire
    \/ \E s \in Streams : WStop(s)
    \/ \E s \in Streams : \E ok \in BOOLEAN : HSessionClosed(s, ok)

SessionSpec == SessionInit /\ [][SessionNext]_vars

\* ---- the headless orchestrator with one session at a time and its capture
\* ticks: the frame counters that rotateStreams() and getStats() read
StatsInit ==
    /\ OrchInit
    /\ maxConcurrent = 1

StatsNext ==
    \/ OrchNext
    \/ \E s \in Streams : HTickFire(s)
    \/ \E s \in Streams : \E ok \in BOOLEAN : \E thr \in BOOLEAN : HTickDone(s, ok, thr)
    \/ BatchTimerFire

StatsSpec == StatsInit /\ [][StatsNext]_vars

\* ---- the orchestrator's status reports: one stream at a time, capture
\* ticks, rotations, the status interval
StatusNext ==
    \/ EngineStart
    \/ EngineConnectSettled
    \/ OnConnect
    \/ OnAuthSuccess
    \/ ClockTick
    \/ StartStreamBegin
    \/ HStartStreamDone("ok")
    \/ RotateFire
    \/ \E r \in Rotations : RotateStopped(r)
    \/ \E r \in Rotations : RotateStarted(r, "ok")
    \/ \E s \in Streams : HTickFire(s)
    \/ \E s \in Streams : HTickDone(s, TRUE, FALSE)
    \/ ReportStatus

StatusSpec == StatsInit /\ [][StatusNext]_vars


\* ============================================================ properties

\* the observations of the transmitted batches, in transmission order
RECURSIVE Flat(_)
Flat(batches) ==
    IF batches = <<>> THEN <<>>
    ELSE Head(batches).observations \o Flat(Tail(batches))

IsPrefix(p, q) == Len(p) <= Len(q) /\ SubSeq(q, 1, Len(p)) = p

\* the observations submitted by stream s, in submission order
SubmittedBy(s) == SelectSeq(accepted, LAMBDA o : o.streamId = s)

\* the step runs sendObservation
SubmitStep == Len(accepted') = Len(accepted) + 1

\* the queue on which the flush of this step ran
FlushedQueue ==
    IF SubmitStep THEN Append(observationQueue, accepted'[Len(accepted')])
    ELSE observationQueue

\* C1: for every stream session the observations it submits carry frameId
\* 1, 2, 3, ... in submission order, without gap or repeat, whatever the
\* interleaving of capture ticks, pause/resume and stop.
C1_FrameIdsConsecutive ==
    \A s \in Streams :
        \A i \in 1..Len(SubmittedBy(s)) : SubmittedBy(s)[i].frameId = i

\* C1 witness: a session submitted several observations and a stop or a
\* pause was requested meanwhile
C1_Witness ==
    /\ \E s \in Streams : Len(SubmittedBy(s)) >= 2
    /\ stopPc # "none" \/ isPaused

\* C2: while the process is alive, every observation accepted by
\* sendObservation is still in the queue or was handed to the transport
\* inside a batch.
C2_NoSilentDrop ==
    alive =>
        \A i \in 1..Len(accepted) :
            \/ \E j \in 1..Len(observationQueue) : observationQueue[j] = accepted[i]
            \/ \E j \in 1..Len(Flat(transmitted)) : Flat(transmitted)[j] = accepted[i]

\* C3: when the transport throws on a flushed batch, the batch is back at
\* the front of the queue in its original order, and the next successful
\* flush delivers it as the first elements of its batch.
C3_RequeueOnThrow ==
    [][/\ (lastFlush' = "threw" /\ alive') => IsPrefix(rejected', observationQueue')
       /\ (lastFlush' = "sent" /\ rejected # <<>>) =>
              IsPrefix(rejected, transmitted'[Len(transmitted')].observations)
      ]_vars

\* C4: each flush takes the oldest min(queue length, batchMaxSize)
\* observations in FIFO order, and the transmitted observations followed by
\* the queued ones are in the order they were passed to sendObservation.
C4_FifoOrder ==
    /\ [](\A i, j \in 1..Len(Flat(transmitted) \o observationQueue) :
            i < j => (Flat(transmitted) \o observationQueue)[i].seq
                       < (Flat(transmitted) \o observationQueue)[j].seq)
    /\ [][Len(transmitted') = Len(transmitted) + 1 =>
            /\ transmitted'[Len(transmitted')].observations =
                  SubSeq(FlushedQueue, 1, Min(Len(FlushedQueue), BatchMaxSize))
            /\ transmitted'[Len(transmitted')].observations \o observationQueue'
                  = FlushedQueue
         ]_vars

\* C4 witness: two batches were transmitted, the second after more
\* observations than one batch holds had been queued
C4_Witness ==
    /\ Len(transmitted) >= 2
    /\ Len(Flat(transmitted)) > BatchMaxSize

\* C5: while connected, the sendObservation call that brings the queue
\* length to batchMaxSize flushes within that call and the flush cancels the
\* pending batching timer.
C5_SizeFlushImmediate ==
    [][(SubmitStep /\ socket /\ connected
          /\ Len(observationQueue) + 1 = BatchMaxSize) =>
            /\ lastFlush' \in {"sent", "threw"}
            /\ ~batchTimeout'
            /\ lastFlush' = "sent" =>
                  /\ Len(transmitted') = Len(transmitted) + 1
                  /\ transmitted'[Len(transmitted')].observations = FlushedQueue
      ]_vars

\* C5 witness: a full batch went out while the channel stayed open, which
\* only the size trigger of sendObservation produces
C5_Witness ==
    /\ lastFlush = "sent" /\ socket /\ ~batchTimeout
    /\ Len(transmitted[Len(transmitted)].observations) = BatchMaxSize

\* the step is the batching timer callback
TimerFlushStep ==
    /\ batchTimeout /\ ~batchTimeout'
    /\ ~SubmitStep
    /\ stopPc' = stopPc

\* C6: the first sendObservation after the queue was empty arms the batching
\* timer, and when the timer fires while connected the queued observations
\* (fewer than batchMaxSize) go out in one batch.
C6_TimerFlush ==
    [][/\ (SubmitStep /\ observationQueue = <<>> /\ BatchMaxSize > 1) =>
              (~batchTimeout /\ batchTimeout')
       /\ (TimerFlushStep /\ socket /\ connected) =>
              /\ observationQueue # <<>>
              /\ Len(observationQueue) < BatchMaxSize
              /\ lastFlush' \in {"sent", "threw"}
              /\ lastFlush' = "sent" =>
                    /\ Len(transmitted') = Len(transmitted) + 1
                    /\ transmitted'[Len(transmitted')].observations = observationQueue
                    /\ observationQueue' = <<>>
      ]_vars

\* C6 witness: a batch smaller than batchMaxSize went out while the channel
\* stayed open, which only the timer produces
C6_Witness ==
    /\ lastFlush = "sent" /\ socket
    /\ Len(transmitted[Len(transmitted)].observations) < BatchMaxSize

\* C7: a flush attempted while the channel is not connected transmits
\* nothing and leaves the queue as it was.
C7_OfflineFlushKeepsQueue ==
    [][(lastFlush' # "none" /\ ~(socket /\ connected)) =>
            /\ transmitted' = transmitted
            /\ observationQueue' = FlushedQueue
      ]_vars

\* C7 witness: a flush was skipped with observations queued
C7_Witness ==
    /\ lastFlush = "offline"
    /\ Len(observationQueue) >= BatchMaxSize
    /\ transmitted = <<>>

\* C8: every transmitted batch carries a batchId different from the batchId
\* of every other transmitted batch.
C8_BatchIdUnique ==
    \A i, j \in 1..Len(transmitted) :
        i # j => transmitted[i].batchId # transmitted[j].batchId

\* the step is the connect timeout callback
AuthTimeoutStep == authTimer /\ ~authTimer'

\* C9 as stated: without an acknowledgement within the timeout, connect()
\* completes successfully, authenticated, with a local agent identifier.
C9_Original ==
    [][(AuthTimeoutStep /\ ~authAcked) =>
            /\ connectPromise' = "resolved"
            /\ authenticated'
            /\ agentId' # ""
      ]_vars

\* C9 amended: without an acknowledgement within the timeout, the channel is
\* marked authenticated with a local agent identifier and connect() completes
\* successfully, unless connect() was already rejected because the desktop
\* build counted max_reconnect_attempts connection errors; connect() is not
\* pending once the timeout has fired.
C9_TimeoutSoftSuccess ==
    /\ [][(AuthTimeoutStep /\ ~authAcked) =>
            /\ authenticated'
            /\ agentId' = "local"
            /\ connectPromise = "pending" => connectPromise' = "resolved"
            /\ connectPromise # "pending" =>
                  /\ connectPromise' = "rejected"
                  /\ variant = "desktop"
         ]_vars
    /\ []((socket \/ connectPromise # "none") /\ ~authTimer
            => connectPromise \in {"resolved", "rejected"})

\* C9 witness: the timeout fired without any acknowledgement and connect()
\* completed
C9_Witness ==
    /\ ~authTimer /\ ~authAcked
    /\ connectPromise = "resolved"
    /\ authenticated /\ agentId = "local"

\* the step is the watcher:auth_error handler: the pending auth message is
\* answered, the socket stays connected and neither the authenticated flag
\* nor the agent identifier is written
AuthErrorStep ==
    /\ authPending /\ ~authPending'
    /\ connected /\ connected' /\ socket'
    /\ authenticated' = authenticated /\ agentId' = agentId

\* C10 as stated: an explicit auth-error makes connect() fail and start()
\* fail without any stream session started.
C10_Original ==
    [][AuthErrorStep =>
            /\ connectPromise' = "rejected"
            /\ nextStreamId = 1
      ]_vars

\* C10 amended: an explicit auth-error that arrives while connect() is still
\* pending makes connect() fail, and start() then fails to its caller
\* without having started any stream session.
C10_AuthErrorFatal ==
    /\ [][(AuthErrorStep /\ connectPromise = "pending") =>
            connectPromise' = "rejected"]_vars
    /\ [](connectPromise = "rejected" =>
            /\ enginePc \in {"connecting", "failed"}
            /\ nextStreamId = 1 /\ streams = <<>> /\ starting = 0
            /\ enginePc = "failed" => startFailed)

\* C10 witness: start() failed on an auth-error, no session exists
C10_Witness ==
    /\ connectPromise = "rejected" /\ authAcked
    /\ reconnectAttempts < MaxReconnectAttempts
    /\ enginePc = "failed" /\ startFailed
    /\ nextStreamId = 1

\* C11: start() starts no stream session before the uplink connection has
\* been established: while the transport has never opened, no session has
\* been started (and start() fails instead).
C11_NoSessionBeforeConnect ==
    nextStreamId > 1 => opened

\* the transport has used up its reconnection attempts and schedules no more
TransportGaveUp == socket /\ ~connected /\ ~TransportTrying

\* C13: once maxReconnectAttempts consecutive attempts have failed and no
\* further attempt is scheduled, the terminal disconnection has been reported
\* upstream (the only upstream path of the code is the rejection of
\* connect()); and a successful connect leaves the attempt counter at zero.
C13_TerminalReported ==
    /\ TransportGaveUp => connectPromise = "rejected"
    /\ connected => reconnectAttempts = 0

\* C14: for a queue of length L > 0, the calls of getNextSource return the
\* positions in queue order starting at the cursor and wrap from L-1 to 0,
\* so any L consecutive calls return each position exactly once.
C14_CursorVisitsAll ==
    /\ Len(requested) > 0 => requested[1] = 0
    /\ \A i \in 1..(Len(requested) - 1) :
           requested[i + 1] = (requested[i] + 1) % Len(sourceQueue)
    /\ \A k \in 0..(Len(requested) - Len(sourceQueue)) :
           { requested[k + i] : i \in 1..Len(sourceQueue) }
               = 0..(Len(sourceQueue) - 1)

\* C14 witness: more than L calls were made on a queue of several sources,
\* and the call after position L-1 returned position 0
C14_Witness ==
    /\ Len(sourceQueue) >= 2
    /\ Len(requested) > Len(sourceQueue)
    /\ requested[Len(sourceQueue) + 1] = 0

\* the position in queue q of the source configured at position id
PositionOf(q, id) == CHOOSE j \in 1..Len(q) : q[j].id = id

\* C15: the initial queue is a permutation of the configured sources; in
\* priority mode a source of lower priority value comes first and sources of
\* equal priority keep their configuration order; in sequential mode the
\* queue is the configuration order.
C15_InitialQueueOrder ==
    sourceQueue # <<>> =>
        /\ Len(sourceQueue) = Len(sources)
        /\ \A i \in 1..Len(sources) :
               \E j \in 1..Len(sourceQueue) : sourceQueue[j] = sources[i]
        /\ rotationMode = "priority" =>
               \A a, b \in 1..Len(sources) :
                   (\/ sources[a].priority < sources[b].priority
                    \/ (sources[a].priority = sources[b].priority /\ a < b))
                   => PositionOf(sourceQueue, a) < PositionOf(sourceQueue, b)
        /\ rotationMode = "sequential" => sourceQueue = sources

\* C15 witness: priority mode reordered a configuration that has two
\* sources of equal priority
C15_Witness ==
    /\ sourceQueue # <<>>
    /\ rotationMode = "priority"
    /\ sourceQueue # sources
    /\ \E a, b \in 1..Len(sources) :
           a < b /\ sources[a].priority = sources[b].priority

\* C16: no step of start, rotation or stop changes the source queue, and
\* the cursor changes only when a source is requested, by
\* index = (index + 1) mod queueLength.
C16_QueueNeverMutated ==
    [][/\ sourceQueue' = sourceQueue
       /\ (currentSourceIndex' # currentSourceIndex
              \/ Len(requested') # Len(requested)) =>
              /\ Len(requested') = Len(requested) + 1
              /\ currentSourceIndex' =
                    (currentSourceIndex + 1) % Len(sourceQueue)
      ]_vars

\* C16 witness: start, a completed rotation and stop have all run and the
\* rotation took a source off the cursor
C16_Witness ==
    /\ stopPc = "done"
    /\ \E r \in Rotations : rotPc[r] = "done"
    /\ Len(requested) > maxConcurrent

\* rotateStreams() call r selects its session in this step
RotationSelects(r) == rotPc[r] = "idle" /\ rotPc'[r] = "stopping"

\* C17: each rotation stops exactly the session with the oldest startedAt
\* among the sessions of the active set (the first inserted among equals)
\* and leaves the others running, then starts exactly one new session bound
\* to the next source off the cursor.
C17_RotatesOldest ==
    [][\A r \in Rotations :
          /\ RotationSelects(r) =>
                /\ InStreams(rotOldest'[r])
                /\ \A i \in 1..Len(streams) :
                       sStartedAt[rotOldest'[r]] <= sStartedAt[streams[i]]
                /\ \A s \in Streams \ {rotOldest'[r]} :
                       sRunning'[s] = sRunning[s] /\ sTimer'[s] = sTimer[s]
          /\ (rotPc[r] = "stopping" /\ rotPc'[r] = "starting") =>
                /\ nextStreamId' = nextStreamId + 1
                /\ sSource'[rotNew'[r]] = currentSourceIndex
      ]_vars

\* rotateStreams() calls suspended at an await
RotationsInProgress == { r \in Rotations : rotPc[r] \in {"stopping", "starting"} }

\* C18: at most one rotation is in progress at any time, and no session is
\* selected for removal by two rotations.
C18_RotationNotReentrant ==
    /\ Cardinality(RotationsInProgress) <= 1
    /\ \A r1, r2 \in Rotations :
           (r1 # r2 /\ rotOldest[r1] # 0) => rotOldest[r1] # rotOldest[r2]

\* start() returns in this step and stop() has not been called
StartReturns ==
    enginePc # "started" /\ enginePc' = "started" /\ stopPc' = "none"

\* C19: in every interleaving of start(), rotation ticks and stop() the
\* active set never holds more than maxConcurrent sessions, and it holds
\* exactly maxConcurrent when start() returns without a failed session start.
C19_PoolSize ==
    [][/\ Len(streams') <= maxConcurrent
       /\ (StartReturns /\ \A s \in Streams : sState'[s] # "error") =>
              Len(streams') = maxConcurrent
      ]_vars

\* a rotation tick fires in this step and finds no active session
EmptyTick == rotCount' = rotCount + 1 /\ streams = <<>>

\* C20: a rotation tick that finds zero active sessions stops nothing,
\* starts nothing and leaves the cursor and the running totals unchanged.
C20_EmptyRotationNoop ==
    [][EmptyTick =>
          UNCHANGED <<streams, currentSourceIndex, requested,
                      totalFramesCaptured, nextStreamId, sessionVars,
                      sStartedAt, rotOldest, rotNew>>
      ]_vars

\* C20 witness: a tick of the running engine found the active set empty
C20_Witness ==
    \E r \in Rotations : rotPc[r] = "noop"

\* a session whose stop call failed: close() of its browser threw (a desktop
\* stream is then marked 'stopped' with its browser reference still set)
StopCallFailed(s) ==
    \/ sPhase[s] = "closeFailed"
    \/ variant = "desktop" /\ stopPc = "failed" /\ sState[s] = "stopped" /\ sBrowser[s]

\* C21: the orchestrator's stop() completes even if a session stop call
\* fails: the failure is not thrown to the caller, and once stop() is over
\* every session of the active set has been stopped, the set is empty and
\* the uplink is disconnected.
C21_StopSurvivesFailure ==
    (\E s \in Streams : StopCallFailed(s)) =>
        /\ stopPc # "failed"
        /\ stopPc = "done" =>
              /\ streams = <<>>
              /\ ~socket /\ ~connected
              /\ \A s \in Streams : sTimer[s] = FALSE

\* a session that is running, or whose start or capture tick is under way or
\* still scheduled
SessionActive(s) ==
    \/ sRunning[s]
    \/ sTimer[s]
    \/ sPhase[s] \in {"launch", "navigate", "capture", "playback"}

\* C22: once stop() has returned, the rotation timer is cancelled, no stream
\* session is running nor being started, and the uplink is disconnected,
\* also when stop() was called while start() or a rotation was in progress.
C22_QuietAfterStop ==
    stopPc = "done" =>
        /\ ~rotationTimer
        /\ \A s \in Streams : ~SessionActive(s)
        /\ ~socket /\ ~connected

\* start() is awaiting the start of session s and that start fails in this
\* step (browser launch or navigation error)
InitialStartFails(s) ==
    /\ starting = s
    /\ sPhase[s] \in {"launch", "navigate"}
    /\ sPhase'[s] = "none"
    /\ sState'[s] # "playing"

\* C23: during start(), a session whose start fails is skipped: start() does
\* not fail, it goes on with the next initial session (or returns after the
\* last one), the failed session is not in the active set, and no further
\* source is taken for a retry.
C23_FailedStartSkipped ==
    [][ \A s \in Streams : InitialStartFails(s) =>
            /\ enginePc' = AfterStartStream(startI)
            /\ startI' = startI + 1
            /\ ~startFailed'
            /\ \A i \in 1..Len(streams') : streams'[i] # s
            /\ requested' = requested
      ]_vars

\* the sessions that have been rotated out (selected by a rotation) or
\* stopped so far
Retired ==
    { s \in Streams : sState[s] = "stopped" \/ \E r \in Rotations : rotOldest[r] = s }

\* the sum of the frame counters of the sessions 1..n that are in set S
RECURSIVE FramesOf(_, _)
FramesOf(S, n) ==
    IF n = 0 THEN 0
    ELSE (IF n \in S THEN sFrames[n] ELSE 0) + FramesOf(S, n - 1)

\* C24: the running frame total that getStats() returns equals the sum of
\* the final framesCaptured of every session rotated out or stopped so far,
\* each counted exactly once.
C24_TotalIsSumOfRetired ==
    totalFramesCaptured = FramesOf(Retired, MaxStreams)

\* the latest StallThreshold ticks of session s reported the same position
SamePosition(s) ==
    /\ Len(readings[s]) = StallThreshold
    /\ \A i \in 1..StallThreshold : readings[s][i] = readings[s][1]

\* C25: a session in state playing or buffering whose reported position is
\* identical on 3 consecutive capture ticks is in state stalled after the
\* third (stopped and error are terminal and stay).
C25_StallDetected ==
    \A s \in Streams :
        SamePosition(s) /\ sState[s] \notin {"stopped", "error"} =>
            sState[s] = "stalled"

\* C26: stopped and error are terminal: once the state of a session is
\* stopped or error, no step (a capture tick that was in flight when the
\* stop was requested included) changes it.
C26_TerminalStates ==
    [][ \A s \in Streams :
            sState[s] \in {"stopped", "error"} => sState'[s] = sState[s]
      ]_vars

\* stop() is called on session s in this step
StopCallOn(s) == sStopCalls'[s] = sStopCalls[s] + 1

\* what a stop() can touch of session s
SessionFields(s) ==
    <<sState[s], sRunning[s], sFrames[s], sTimer[s], sArmedAt[s], sInflight[s],
      sPhase[s], sBrowser[s], sCloseCalls[s]>>

C28_PausedCapturesNothing ==
    [][ isPaused =>
            /\ \A s \in Streams : sFrames'[s] = sFrames[s]
            /\ accepted' = accepted
      ]_vars

\* the capture loop of session s is alive: its next tick is scheduled or a
\* tick is under way (nothing but a tick schedules the next tick)
LoopAlive(s) == sTimer[s] \/ sPhase[s] \in {"capture", "playback"}

\* C29: after pause() and resume() the capture loop of a running session
\* that is not stopped runs again, so that it captures and submits further
\* observations: whenever the engine is running and not paused, the loop of
\* every playing or buffering session of the Map is alive.
C29_LoopRunsAfterResume ==
    variant = "desktop" /\ engineState = "running" /\ ~isPaused /\ stopPc = "none" =>
        \A s \in Streams :
            InStreams(s) /\ sState[s] \in {"playing", "buffering"} => LoopAlive(s)

\* disconnect() returns in this step (it is the last call of stop(), which
\* returns with it)
DisconnectReturns == stopPc # "done" /\ stopPc' = "done"

\* C30: when disconnect() returns the batching timer is cancelled, at most
\* one final flush was made, the transport is closed and the connected and
\* authenticated flags are both false.
C30_DisconnectClearsChannel ==
    [][ DisconnectReturns =>
            /\ ~batchTimeout'
            /\ Len(transmitted') <= Len(transmitted) + 1
            /\ ~socket'
            /\ ~connected'
            /\ ~authenticated'
      ]_vars

\* two stored insights that addInsight() treats as the same
DuplicatePair(a, b) ==
    /\ kInsights[a].videoId = kInsights[b].videoId
    /\ kInsights[a].content = kInsights[b].content
    /\ Abs(kInsights[a].frameTime - kInsights[b].frameTime) < DedupWindow

EmptyText ==
    [insights |-> <<>>, totalInsights |-> 0, totalIncidents |-> 0,
     totalPatterns |-> 0, stats |-> [c \in Categories |-> EmptyStats]]

\* what knowledge.json says (no file: nothing)
Persisted == IF kFile = <<>> THEN EmptyText ELSE kFile[1]

\* C32: the capture loop is single-flight per session: at most one capture
\* tick of a session is in progress at any time.
C32_SingleFlight == \A s \in Streams : sInflight[s] <= 1

\* C33: once stop has been requested on a session, the session submits no
\* further observation to the uplink and arms no further tick.
C33_NothingAfterStopRequest ==
    [][\A s \in Streams :
          sStopCalls[s] > 0 =>
              /\ Len(SelectSeq(accepted', LAMBDA o : o.streamId = s))
                     = Len(SubmittedBy(s))
              /\ sTimer'[s] => sTimer[s]
      ]_vars

\* C40: whenever no save() is in progress and dirty is false, the knowledge
\* file reflects every update applied so far.
C40_CleanMeansPersisted ==
    (kWrites = <<>> /\ ~kDirty) => Persisted = KnowledgeText

\* C34: on a connected channel every queued observation is eventually
\* transmitted even when nothing more is enqueued. Without a further
\* enqueue the only step that transmits is the batch timer's flush, so a
\* connected channel with a non-empty queue has its batch timer armed.
C34_QueuedWillBeFlushed ==
    (socket /\ connected /\ observationQueue # <<>>) => batchTimeout

\* a flush transmits a batch
TransmitStep == Len(transmitted') = Len(transmitted) + 1

\* C35: no observation batch is transmitted on a connection before the
\* authentication of that connection has completed (auth-success received
\* or the auth timeout elapsed).
C35_NoBatchBeforeAuth == [][TransmitStep => authenticated]_vars

\* isConnected()
IsConnected == connected /\ authenticated

\* C36: after an explicit auth-error the authenticated flag and
\* isConnected() stay false until an auth-success is received, also when
\* the connect timeout fires later.
C36_RejectedStaysUnauthenticated ==
    authRejected => (~authenticated /\ ~IsConnected)

\* C37: with several sessions sharing the channel, every observation of a
\* transmitted batch belongs to the stream named in the batch's streamInfo
\* and, when streamInfo names a source, to that source.
C37_BatchMatchesStreamInfo ==
    \A b \in 1..Len(transmitted) :
        \A k \in 1..Len(transmitted[b].observations) :
            LET o == transmitted[b].observations[k]
                info == transmitted[b].streamInfo
            IN  /\ o.streamId = info.streamId
                /\ info.source \in {-1, sSource[o.streamId]}

\* C38: every status message reports a totalFramesCaptured equal to the
\* frames captured so far by all sessions, rotated-out and live, and the
\* reported total never decreases from one status message to the next.
C38_StatusTotalExact ==
    /\ [](statusReported # -1 => statusReported = statusActual)
    /\ [][statusReported' >= statusReported]_vars

\* C39: the desktop WatcherEngine owns at most one live UplinkManager and
\* one StreamManager at any time, also after a start() called while an
\* earlier start() is in progress or while the engine is paused.
C39_SingleUplinkAndManager ==
    variant = "desktop" => (LiveUplinks <= 1 /\ LiveStreamManagers <= 1)

====
